---- MODULE Spec2Model ----
(***************************************************************************)
(* Model of the FatSecret MCP server: the token persistence layer          *)
(* (token_store.py), the OAuth 1.0a signer (auth.py) and handshake         *)
(* (oauth_flow.py), the API client (api_client.py) and the account tools   *)
(* of the server (server.py).                                              *)
(*                                                                         *)
(* The storage directory is modelled as a table of names pointing at       *)
(* inodes; an inode holds the chunks written to it and its permission      *)
(* bits.  A JSON document is the sequence of chunks json.dump writes, and  *)
(* json.load parses such a sequence back, so that a partially written or   *)
(* foreign file is something the parse can reject.                         *)
(***************************************************************************)
EXTENDS Integers, Sequences, FiniteSets, TLC

VARIABLES
    fs,      \* the storage directory: [dir: name -> inode or 0, inodes: inode -> file,
             \*   tree: the directories above the storage file]
    now,     \* time.time()
    last,    \* the call that completed last: operation, argument, exception, result, time
    calls,   \* the coroutines of OAuthFlowManager that await an HTTP response
    sent,    \* number of requests POSTed to the OAuth endpoints
    signed,  \* number of sign_request calls made
    procs,   \* the processes that run a TokenStore call step by step
    env,     \* os.environ: the variables the server and the EnvTokenStore read
    client,  \* the server's _client: None, or the FatSecretClient it holds
    used     \* the exchanges that obtained a user token, with the request token used

vars == <<fs, now, last, calls, sent, signed, procs, env, client, used>>

(***************************************************************************)
(* Bounds of the model.                                                    *)
(***************************************************************************)
MaxTime == 2        \* the clock runs from 1 to MaxTime
MaxInodes == 3      \* inodes of the storage directory
MaxSends == 2       \* requests the flow manager sends in one behaviour
MaxSigns == 2       \* sign_request calls made one after the other in one behaviour

(***************************************************************************)
(* Python values.  None and an optional value are the sequences <<>> and   *)
(* <<v>>.                                                                  *)
(***************************************************************************)
None == <<>>
Some(v) == <<v>>

Strs == {"a", "b"}

\* the tokens callers pass in: token and secret differ, so that a swap shows
RequestTokens == {t \in [oauth_token : Strs, oauth_token_secret : Strs] :
                    t.oauth_token # t.oauth_token_secret}

CreatedAts == {None, Some(0)} \cup {Some(t) : t \in 1..MaxTime}

UserTokens == {t \in [oauth_token : Strs, oauth_token_secret : Strs,
                       created_at : CreatedAts] :
                    t.oauth_token # t.oauth_token_secret}

RequestToken(tok, sec) == [oauth_token |-> tok, oauth_token_secret |-> sec]

UserToken(tok, sec, created) ==
    [oauth_token |-> tok, oauth_token_secret |-> sec, created_at |-> created]

(***************************************************************************)
(* JSON values, as json.load returns them.                                 *)
(***************************************************************************)
Null == [t |-> "null"]
Str(s) == [t |-> "string", s |-> s]
Num(n) == [t |-> "number", n |-> n]
Arr == [t |-> "array"]                       \* the empty list []
Obj(m) == [t |-> "object", m |-> m]
EmptyDict == Obj([k \in {} |-> Null])

IsDict(v) == v.t = "object"

\* Python truthiness of a JSON value ("if not token_data")
Falsy(v) ==
    \/ v.t = "null"
    \/ v.t = "array"
    \/ v.t = "string" /\ v.s = ""
    \/ v.t = "number" /\ v.n = 0
    \/ v.t = "object" /\ DOMAIN v.m = {}

\* dict.get(key): the value, or None
dict_get(d, key) == IF key \in DOMAIN d.m THEN d.m[key] ELSE Null

\* d[key] = v
dict_set(d, key, v) ==
    Obj([k \in DOMAIN d.m \cup {key} |-> IF k = key THEN v ELSE d.m[k]])

\* del d[key]
dict_del(d, key) == Obj([k \in DOMAIN d.m \ {key} |-> d.m[k]])

(***************************************************************************)
(* json.dump / json.load.  A document is written as a sequence of chunks:  *)
(* the opening brace, one chunk per member, the closing brace.             *)
(***************************************************************************)
KeyOrder == <<"user_token", "request_token">>

RECURSIVE dump_members(_, _)
dump_members(d, i) ==
    IF i > Len(KeyOrder) THEN <<>>
    ELSE (IF KeyOrder[i] \in DOMAIN d.m
          THEN <<[c |-> "member", key |-> KeyOrder[i], val |-> d.m[KeyOrder[i]]]>>
          ELSE <<>>) \o dump_members(d, i + 1)

json_dump(v) ==
    IF IsDict(v)
    THEN <<[c |-> "open"]>> \o dump_members(v, 1) \o <<[c |-> "close"]>>
    ELSE <<[c |-> "scalar", val |-> v]>>

RECURSIVE load_members(_, _, _)
load_members(text, i, acc) ==
    IF i > Len(text) - 1 THEN acc
    ELSE load_members(text, i + 1, dict_set(acc, text[i].key, text[i].val))

\* [ok |-> FALSE] is json.JSONDecodeError
json_load(text) ==
    IF Len(text) = 1 /\ text[1].c = "scalar"
    THEN [ok |-> TRUE, val |-> text[1].val]
    ELSE IF /\ Len(text) >= 2
            /\ text[1].c = "open"
            /\ text[Len(text)].c = "close"
            /\ \A i \in 2..(Len(text) - 1) : text[i].c = "member"
    THEN [ok |-> TRUE, val |-> load_members(text, 2, EmptyDict)]
    ELSE [ok |-> FALSE]

(***************************************************************************)
(* The storage directory.                                                  *)
(***************************************************************************)
Path(stem, suffix) == [stem |-> stem, suffix |-> suffix]

\* Path.with_suffix
with_suffix(p, suffix) == [p EXCEPT !.suffix = suffix]

\* TokenStore._storage_path (the file name of Settings.token_storage_path)
storage_path == Path("tokens", ".json")

temp_path_same == storage_path

\* temp_path of _write_storage
temp_path == with_suffix(storage_path, ".tmp")

Paths == {storage_path, temp_path}

Inodes == 1..MaxInodes

ModeOwnerRW == 384      \* 0o600
ModeCreate == 420       \* 0o644: open(path, "w") under umask 022

FreeInode == [content |-> <<>>, mode |-> 0]

Exists(F, p) == F.dir[p] # 0

\* open(path) succeeds when the owner may read the file; OSError otherwise
Readable(F, p) == (F.inodes[F.dir[p]].mode \div 256) % 2 = 1     \* bit 0o400

Content(F, p) == F.inodes[F.dir[p]].content

\* inodes some name or some open file refers to
Referenced(F, open) == {F.dir[p] : p \in Paths} \cup open

\* release the inodes nothing refers to any more
Collect(F, open) ==
    [F EXCEPT !.inodes = [i \in Inodes |->
        IF i \in Referenced(F, open) THEN F.inodes[i] ELSE FreeInode]]

CanAllocate(F, open) == Inodes \ Referenced(F, open) # {}

Allocate(F, open) == CHOOSE i \in Inodes \ Referenced(F, open) :
                        \A j \in Inodes \ Referenced(F, open) : i <= j

\* open(path, "w"): create the file, or truncate the one the name points at
OpenW(F, p, open) ==
    IF Exists(F, p)
    THEN [F EXCEPT !.inodes[F.dir[p]].content = <<>>]
    ELSE LET i == Allocate(F, open)
         IN [F EXCEPT !.dir[p] = i,
                      !.inodes[i] = [content |-> <<>>, mode |-> ModeCreate]]

\* write the chunk at offset off of the open file i; a write past the end of
\* the file leaves a hole of zero bytes before it
WriteAt(F, i, off, chunk) ==
    LET old == F.inodes[i].content
        len == IF Len(old) > off THEN Len(old) ELSE off + 1
    IN [F EXCEPT !.inodes[i].content =
            [k \in 1..len |-> IF k = off + 1 THEN chunk
                              ELSE IF k <= Len(old) THEN old[k]
                              ELSE [c |-> "hole"]]]

\* os.chmod(path, mode)
Chmod(F, p, mode) == [F EXCEPT !.inodes[F.dir[p]].mode = mode]

\* Path.rename(target): the name target now points at the source's inode
Rename(F, src, dst) ==
    IF src = dst THEN F
    ELSE [F EXCEPT !.dir = [q \in Paths |->
            IF q = dst THEN F.dir[src] ELSE IF q = src THEN 0 ELSE F.dir[q]]]

(***************************************************************************)
(* The directories above the storage file, outermost first: the default    *)
(* token_storage_path is ~/.config/fatsecret-mcp/tokens.json.  The last    *)
(* one is the directory of _ensure_directory.  Modes are those a umask of  *)
(* 022 gives.                                                              *)
(***************************************************************************)
DirChain == <<".config", "fatsecret-mcp">>

\* directory = self._storage_path.parent
directory == Len(DirChain)

ModeOwnerOnly == 448    \* 0o700
ModeDirDefault == 493   \* 0o755: mkdir with the default mode 0o777 under umask 022

NoDir == [exists |-> FALSE, mode |-> 0, made |-> FALSE]

mkdir_mode_default(i) == ModeDirDefault

\* Path.mkdir(parents=True, mode=0o700): the mode is given to the directory
\* itself, missing parents are made with the default mode
mkdir_mode(i) == IF i = directory THEN ModeOwnerOnly ELSE ModeDirDefault

\* directory.mkdir(parents=True, mode=0o700); made marks what the store made
mkdir(F) ==
    [F EXCEPT !.tree = [i \in DOMAIN DirChain |->
        IF F.tree[i].exists THEN F.tree[i]
        ELSE [exists |-> TRUE, mode |-> mkdir_mode(i), made |-> TRUE]]]

\* _ensure_directory
ensure_directory(F) == IF F.tree[directory].exists THEN F ELSE mkdir(F)

(***************************************************************************)
(* TokenStore                                                              *)
(***************************************************************************)
\* _read_storage: {} when the file is missing, cannot be opened or is not JSON
read_storage(F) ==
    IF ~Exists(F, storage_path) THEN EmptyDict
    ELSE IF ~Readable(F, storage_path) THEN EmptyDict
    ELSE LET r == json_load(Content(F, storage_path))
         IN IF r.ok THEN r.val ELSE EmptyDict

RECURSIVE WriteAll(_, _, _, _)
WriteAll(F, i, text, off) ==
    IF off >= Len(text) THEN F
    ELSE WriteAll(WriteAt(F, i, off, text[off + 1]), i, text, off + 1)

\* _write_storage run to its end by one process with nothing in between
write_storage(F, data) ==
    LET F0 == ensure_directory(F)
        F1 == OpenW(F0, temp_path, {})
        F2 == WriteAll(F1, F1.dir[temp_path], json_dump(data), 0)
        F3 == Chmod(F2, temp_path, ModeOwnerRW)
    IN Collect(Rename(F3, temp_path, storage_path), {})

\* the outcome of a call: what it raised, what it returned, the directory after it
Return(F, v) == [exc |-> "none", ret |-> v, fs |-> F]
Raise(F, e) == [exc |-> e, ret |-> None, fs |-> F]

\* a write that the operating system refuses (open of the temporary file fails)
Write(F, data, ok) ==
    IF ok THEN Return(write_storage(F, data), None)
    ELSE Raise(ensure_directory(F), "OSError")

created_at_always_now(token, t) == t

\* token.created_at or time.time()
created_at_or_now(token, t) ==
    IF token.created_at = None \/ token.created_at = Some(0)
    THEN t ELSE token.created_at[1]

user_token_dict(token, t) ==
    Obj([oauth_token |-> Str(token.oauth_token),
         oauth_token_secret |-> Str(token.oauth_token_secret),
         created_at |-> Num(created_at_or_now(token, t))])

request_token_dict_swapped(token) ==
    Obj([oauth_token |-> Str(token.oauth_token_secret),
         oauth_token_secret |-> Str(token.oauth_token)])

request_token_dict(token) ==
    Obj([oauth_token |-> Str(token.oauth_token),
         oauth_token_secret |-> Str(token.oauth_token_secret)])

save_data_fresh(F) == EmptyDict

\* data = self._read_storage() of the two save operations
save_data(F) == read_storage(F)

\* data["user_token"] = {...}
user_token_saved(data, token, t) ==
    dict_set(data, "user_token", user_token_dict(token, t))

\* data["request_token"] = {...}
request_token_saved(data, token) ==
    dict_set(data, "request_token", request_token_dict(token))

\* item assignment raises TypeError on a list, a string, a number and None
save_user_token(F, token, t, ok) ==
    LET data == save_data(F)
    IN IF ~IsDict(data) THEN Raise(F, "TypeError")
       ELSE Write(F, user_token_saved(data, token, t), ok)

save_request_token(F, token, ok) ==
    LET data == save_data(F)
    IN IF ~IsDict(data) THEN Raise(F, "TypeError")
       ELSE Write(F, request_token_saved(data, token), ok)

\* the fields a stored token must have to be loaded
HasFields(token_data) ==
    {"oauth_token", "oauth_token_secret"} \subseteq DOMAIN token_data.m

load_user_token(F) ==
    LET data == read_storage(F)
    IN IF ~IsDict(data) THEN Raise(F, "AttributeError")
       ELSE LET token_data == dict_get(data, "user_token")
            IN IF Falsy(token_data) THEN Return(F, None)
               ELSE IF ~IsDict(token_data) THEN Raise(F, "TypeError")
               ELSE IF ~HasFields(token_data) THEN Raise(F, "KeyError")
               ELSE Return(F, Some(UserToken(
                        token_data.m["oauth_token"].s,
                        token_data.m["oauth_token_secret"].s,
                        IF "created_at" \in DOMAIN token_data.m
                        THEN Some(token_data.m["created_at"].n) ELSE None)))

load_request_token(F) ==
    LET data == read_storage(F)
    IN IF ~IsDict(data) THEN Raise(F, "AttributeError")
       ELSE LET token_data == dict_get(data, "request_token")
            IN IF Falsy(token_data) THEN Return(F, None)
               ELSE IF ~IsDict(token_data) THEN Raise(F, "TypeError")
               ELSE IF ~HasFields(token_data) THEN Raise(F, "KeyError")
               ELSE Return(F, Some(RequestToken(
                        token_data.m["oauth_token"].s,
                        token_data.m["oauth_token_secret"].s)))

\* key in data
contains(data, key) == IsDict(data) /\ key \in DOMAIN data.m

\* "key in data" raises TypeError when data is None or a number
NotIterable(data) == data.t \in {"null", "number"}

contains_always(data, key) == TRUE

\* the test of delete_user_token and clear_request_token
slot_present(data, key) == contains(data, key)

delete_user_token(F, ok) ==
    LET data == read_storage(F)
    IN IF NotIterable(data) THEN Raise(F, "TypeError")
       ELSE IF slot_present(data, "user_token")
       THEN Write(F, dict_del(data, "user_token"), ok)
       ELSE Return(F, None)

clear_request_token(F, ok) ==
    LET data == read_storage(F)
    IN IF NotIterable(data) THEN Raise(F, "TypeError")
       ELSE IF slot_present(data, "request_token")
       THEN Write(F, dict_del(data, "request_token"), ok)
       ELSE Return(F, None)

has_user_token(F) == load_user_token(F).ret # None

(***************************************************************************)
(* Processes that run a TokenStore call one system call at a time: two     *)
(* writers and a reader on the same storage path.                          *)
(***************************************************************************)
Writers == {"w1", "w2"}
Reader == "r"
Procs == Writers \cup {Reader}

IdleProc == [pc |-> "idle", op |-> "none", data |-> EmptyDict, prev |-> None,
             fd |-> 0, off |-> 0, exc |-> "none", latest |-> FALSE]

\* os.environ with none of the variables set
NoEnv == [FATSECRET_USER_TOKEN |-> None, FATSECRET_USER_TOKEN_SECRET |-> None,
          is_cloud |-> FALSE]

(***************************************************************************)
(* Initial state: TokenStore.__init__ on an empty directory, no call made. *)
(***************************************************************************)
NoFiles == [dir |-> [p \in Paths |-> 0], inodes |-> [i \in Inodes |-> FreeInode],
            tree |-> [i \in DOMAIN DirChain |-> NoDir]]

\* TokenStore(storage_path) where none of the directories exists
EmptyFs == ensure_directory(NoFiles)

NoCall == [op |-> "none", exc |-> "none", msg |-> None, ret |-> None,
           arg |-> None, resp |-> None, wrote |-> FALSE, at |-> 0, other |-> None]

Init ==
    /\ fs = EmptyFs
    /\ now = 1
    /\ last = NoCall
    /\ calls = {}
    /\ sent = 0
    /\ signed = 0
    /\ procs = [p \in Procs |-> IdleProc]
    /\ env = NoEnv
    /\ client = None
    /\ used = {}

\* what load_user_token / load_request_token give: exception and result
UserSlot(F) == LET r == load_user_token(F) IN <<r.exc, r.ret>>
RequestSlot(F) == LET r == load_request_token(F) IN <<r.exc, r.ret>>

\* a completed call of a TokenStore operation; other is what a load of the
\* other slot gave before the call
Completed(op, arg, r, other) ==
    [op |-> op, exc |-> r.exc, msg |-> None, ret |-> r.ret,
     arg |-> arg, resp |-> None, wrote |-> r.fs # fs, at |-> now, other |-> other]

Tick ==
    /\ now < MaxTime
    /\ now' = now + 1
    /\ UNCHANGED <<fs, last, calls, sent, signed, procs, env, client, used>>

SaveUserToken ==
    \E token \in UserTokens, ok \in BOOLEAN :
        LET r == save_user_token(fs, token, now, ok)
        IN /\ fs' = r.fs
           /\ last' = Completed("save_user_token", Some(token), r, RequestSlot(fs))
           /\ UNCHANGED <<now, calls, sent, signed, procs, env, client, used>>

LoadUserToken ==
    LET r == load_user_token(fs)
    IN /\ last' = Completed("load_user_token", None, r, None)
       /\ UNCHANGED <<fs, now, calls, sent, signed, procs, env, client, used>>

DeleteUserToken ==
    \E ok \in BOOLEAN :
        LET r == delete_user_token(fs, ok)
        IN /\ fs' = r.fs
           /\ last' = Completed("delete_user_token", None, r, RequestSlot(fs))
           /\ UNCHANGED <<now, calls, sent, signed, procs, env, client, used>>

SaveRequestToken ==
    \E token \in RequestTokens, ok \in BOOLEAN :
        LET r == save_request_token(fs, token, ok)
        IN /\ fs' = r.fs
           /\ last' = Completed("save_request_token", Some(token), r, UserSlot(fs))
           /\ UNCHANGED <<now, calls, sent, signed, procs, env, client, used>>

LoadRequestToken ==
    LET r == load_request_token(fs)
    IN /\ last' = Completed("load_request_token", None, r, None)
       /\ UNCHANGED <<fs, now, calls, sent, signed, procs, env, client, used>>

ClearRequestToken ==
    \E ok \in BOOLEAN :
        LET r == clear_request_token(fs, ok)
        IN /\ fs' = r.fs
           /\ last' = Completed("clear_request_token", None, r, UserSlot(fs))
           /\ UNCHANGED <<now, calls, sent, signed, procs, env, client, used>>

StoreNext ==
    \/ Tick
    \/ SaveUserToken
    \/ LoadUserToken
    \/ DeleteUserToken
    \/ SaveRequestToken
    \/ LoadRequestToken
    \/ ClearRequestToken

Next == StoreNext

\* the TokenStore operations called in any order, writes that may fail included
Spec == Init /\ [][Next]_vars

(***************************************************************************)
(* OAuth1Signer.  A string is the sequence of its characters.  HMAC-SHA1   *)
(* and base64 are kept symbolic: a signature is the record of the key and  *)
(* the message it was computed from, so two signatures are equal exactly   *)
(* when keys and messages are.  The values of a parameter mapping are      *)
(* Str(text), or the signature.                                            *)
(***************************************************************************)
\* the characters of the model in code point order: Python compares strings
\* character by character by code point
CodePoints ==
    <<" ", "%", "&", "+", "-", ".", "/", "0", "1", "2", "3", "4", "5", "6",
      "7", "8", "9", ":", "=", "A", "B", "C", "D", "E", "F", "G", "H", "I",
      "J", "K", "L", "M", "N", "O", "P", "Q", "R", "S", "T", "U", "V", "W",
      "X", "Y", "Z", "_", "a", "b", "c", "d", "e", "f", "g", "h", "i", "j",
      "k", "l", "m", "n", "o", "p", "q", "r", "s", "t", "u", "v", "w", "x",
      "y", "z", "~", "é">>

OrdTable ==
    [c \in {CodePoints[i] : i \in DOMAIN CodePoints} |->
        CHOOSE i \in DOMAIN CodePoints : CodePoints[i] = c]

\* the place of a character in the order of code points
ord(c) == OrdTable[c]

Lower ==
    <<"a", "b", "c", "d", "e", "f", "g", "h", "i", "j", "k", "l", "m", "n",
      "o", "p", "q", "r", "s", "t", "u", "v", "w", "x", "y", "z">>
Upper ==
    <<"A", "B", "C", "D", "E", "F", "G", "H", "I", "J", "K", "L", "M", "N",
      "O", "P", "Q", "R", "S", "T", "U", "V", "W", "X", "Y", "Z">>

\* str.upper
upper(s) ==
    [n \in DOMAIN s |->
        IF \E i \in DOMAIN Lower : Lower[i] = s[n]
        THEN Upper[CHOOSE i \in DOMAIN Lower : Lower[i] = s[n]] ELSE s[n]]

Digits == <<"0", "1", "2", "3", "4", "5", "6", "7", "8", "9">>

\* str(n) of a natural number
RECURSIVE str(_)
str(n) == IF n < 10 THEN <<Digits[n + 1]>> ELSE str(n \div 10) \o <<Digits[(n % 10) + 1]>>

\* the string of a model value that is one character or empty
chars(s) == IF s = "" THEN <<>> ELSE <<s>>

\* a < b for strings
RECURSIVE less(_, _)
less(a, b) ==
    IF b = <<>> THEN FALSE
    ELSE IF a = <<>> THEN TRUE
    ELSE IF Head(a) = Head(b) THEN less(Tail(a), Tail(b))
    ELSE ord(Head(a)) < ord(Head(b))

\* the characters urllib.parse.quote never escapes
AlwaysSafe ==
    {Lower[i] : i \in DOMAIN Lower} \cup {Upper[i] : i \in DOMAIN Upper}
        \cup {Digits[i] : i \in DOMAIN Digits} \cup {"_", ".", "-", "~"}

\* the UTF-8 bytes of the other characters of the model, in hexadecimal
Utf8Hex ==
    [c \in {CodePoints[i] : i \in DOMAIN CodePoints} \ AlwaysSafe |->
        CASE c = " " -> <<"2", "0">>
          [] c = "%" -> <<"2", "5">>
          [] c = "&" -> <<"2", "6">>
          [] c = "+" -> <<"2", "B">>
          [] c = "/" -> <<"2", "F">>
          [] c = ":" -> <<"3", "A">>
          [] c = "=" -> <<"3", "D">>
          [] c = "é" -> <<"C", "3", "A", "9">>]

\* "%XX" for each byte
RECURSIVE escapes(_)
escapes(hex) ==
    IF hex = <<>> THEN <<>>
    ELSE <<"%", hex[1], hex[2]>> \o escapes(SubSeq(hex, 3, Len(hex)))

\* quote_plus of one character: a space is "+"
quote_plus_char(c) ==
    IF c = " " THEN <<"+">> ELSE IF c \in AlwaysSafe THEN <<c>> ELSE escapes(Utf8Hex[c])

\* quote of one character
quote_char(c) == IF c \in AlwaysSafe THEN <<c>> ELSE escapes(Utf8Hex[c])

\* _percent_encode: urllib.parse.quote(str(value), safe=""), character by
\* character (the string is halved to keep the evaluation shallow)
RECURSIVE percent_encode(_)
percent_encode(value) ==
    IF value = <<>> THEN <<>>
    ELSE IF Len(value) = 1 THEN quote_char(value[1])
    ELSE LET half == Len(value) \div 2
         IN percent_encode(SubSeq(value, 1, half))
                \o percent_encode(SubSeq(value, half + 1, Len(value)))

\* the parameter names of OAuth 1.0a
k_oauth_consumer_key ==
    <<"o", "a", "u", "t", "h", "_", "c", "o", "n", "s", "u", "m", "e", "r",
      "_", "k", "e", "y">>
k_oauth_signature_method ==
    <<"o", "a", "u", "t", "h", "_", "s", "i", "g", "n", "a", "t", "u", "r",
      "e", "_", "m", "e", "t", "h", "o", "d">>
k_oauth_timestamp ==
    <<"o", "a", "u", "t", "h", "_", "t", "i", "m", "e", "s", "t", "a", "m",
      "p">>
k_oauth_nonce ==
    <<"o", "a", "u", "t", "h", "_", "n", "o", "n", "c", "e">>
k_oauth_version ==
    <<"o", "a", "u", "t", "h", "_", "v", "e", "r", "s", "i", "o", "n">>
k_oauth_token ==
    <<"o", "a", "u", "t", "h", "_", "t", "o", "k", "e", "n">>
k_oauth_signature ==
    <<"o", "a", "u", "t", "h", "_", "s", "i", "g", "n", "a", "t", "u", "r",
      "e">>
k_oauth_callback ==
    <<"o", "a", "u", "t", "h", "_", "c", "a", "l", "l", "b", "a", "c", "k">>
k_oauth_verifier ==
    <<"o", "a", "u", "t", "h", "_", "v", "e", "r", "i", "f", "i", "e", "r">>

HMAC_SHA1 ==
    <<"H", "M", "A", "C", "-", "S", "H", "A", "1">>
Version ==
    <<"1", ".", "0">>
POST ==
    <<"P", "O", "S", "T">>

\* Settings.consumer_key, Settings.consumer_secret
ConsumerKey ==
    <<"c", "k">>
ConsumerSecret ==
    <<"c", "s">>

settings == [consumer_key |-> ConsumerKey, consumer_secret |-> ConsumerSecret]

\* OAuth1Signer(settings, user_token, user_token_secret): "user_token_secret or ''"
Signer(s, user_token, user_token_secret) ==
    [consumer_key |-> s.consumer_key,
     consumer_secret |-> s.consumer_secret,
     user_token |-> user_token,
     user_token_secret |-> IF user_token_secret = None THEN <<>> ELSE user_token_secret[1]]

\* {**a, **b}
Merge(a, b) ==
    [k \in DOMAIN a \cup DOMAIN b |-> IF k \in DOMAIN b THEN b[k] ELSE a[k]]

\* sorted(params.items()): the keys of a dict differ, so the items are ordered
\* by their keys
RECURSIVE sorted(_)
sorted(keys) ==
    IF keys = {} THEN <<>>
    ELSE LET first == CHOOSE k \in keys : \A j \in keys \ {k} : less(k, j)
         IN <<first>> \o sorted(keys \ {first})

\* "&".join(parts)
RECURSIVE join(_, _)
join(sep, parts) ==
    IF parts = <<>> THEN <<>>
    ELSE IF Len(parts) = 1 THEN parts[1]
    ELSE parts[1] \o sep \o join(sep, Tail(parts))

\* the parameter string of _create_signature_base_string
param_string(params) ==
    LET sorted_params == sorted(DOMAIN params)
    IN join(<<"&">>, [i \in DOMAIN sorted_params |->
            percent_encode(sorted_params[i]) \o <<"=">>
                \o percent_encode(params[sorted_params[i]].s)])

create_signature_base_string(url, method, params) ==
    join(<<"&">>, <<upper(method), percent_encode(url),
                    percent_encode(param_string(params))>>)

\* hmac.new(key, msg, hashlib.sha1).digest()
hmac_sha1(key, msg) == [key |-> key, msg |-> msg]

\* base64.b64encode(digest).decode("utf-8")
b64encode(digest) == [t |-> "base64", digest |-> digest]

key_unencoded(signer) == signer.consumer_secret \o <<"&">> \o signer.user_token_secret

\* signing_key of _generate_signature
signing_key(signer) ==
    percent_encode(signer.consumer_secret) \o <<"&">>
        \o percent_encode(signer.user_token_secret)

generate_signature(signer, url, method, params) ==
    LET base_string == create_signature_base_string(url, method, params)
    IN b64encode(hmac_sha1(signing_key(signer), base_string))

has_token_never(signer) == FALSE

\* "if self._user_token"
has_token(signer) == signer.user_token # None /\ signer.user_token # Some(<<>>)

generate_nonce_fixed(drawn) == <<"0">>

\* _generate_nonce: secrets.token_hex(16), drawn being what the random source
\* gives this call
generate_nonce(drawn) == drawn

returned_app_first(params, oauth_params) == Merge(oauth_params, params)

\* return {**params, **oauth_params}
returned(params, oauth_params) == Merge(params, oauth_params)

\* sign_request, nonce being what secrets.token_hex(16) returns to the call and
\* t what time.time() does
sign_request(signer, url, method, params, nonce, t) ==
    LET base_params ==
            (k_oauth_consumer_key :> Str(signer.consumer_key))
                @@ (k_oauth_signature_method :> Str(HMAC_SHA1))
                @@ (k_oauth_timestamp :> Str(str(t)))
                @@ (k_oauth_nonce :> Str(generate_nonce(nonce)))
                @@ (k_oauth_version :> Str(Version))
        oauth_params ==
            IF has_token(signer)
            THEN Merge(base_params, k_oauth_token :> Str(signer.user_token[1]))
            ELSE base_params
        all_params == Merge(params, oauth_params)
        signature == generate_signature(signer, url, method, all_params)
    IN returned(params, Merge(oauth_params, k_oauth_signature :> signature))

(***************************************************************************)
(* OAuthFlowManager                                                        *)
(***************************************************************************)
oauth_request_token_url ==
    <<"h", "t", "t", "p", "s", ":", "/", "/", "a", "u", "t", "h", "e", "n",
      "t", "i", "c", "a", "t", "i", "o", "n", ".", "f", "a", "t", "s", "e",
      "c", "r", "e", "t", ".", "c", "o", "m", "/", "o", "a", "u", "t", "h",
      "/", "r", "e", "q", "u", "e", "s", "t", "_", "t", "o", "k", "e", "n">>
oauth_access_token_url ==
    <<"h", "t", "t", "p", "s", ":", "/", "/", "a", "u", "t", "h", "e", "n",
      "t", "i", "c", "a", "t", "i", "o", "n", ".", "f", "a", "t", "s", "e",
      "c", "r", "e", "t", ".", "c", "o", "m", "/", "o", "a", "u", "t", "h",
      "/", "a", "c", "c", "e", "s", "s", "_", "t", "o", "k", "e", "n">>

oob ==
    <<"o", "o", "b">>

Callbacks == {oob}
Verifiers == {"v"}

\* what the provider may answer: a status and a form-encoded body, or no answer
\* at all (httpx.RequestError: connection refused, timeout)
Pair(k, v) == [k |-> k, v |-> v]
Bodies ==
    {<<>>,
     <<Pair("oauth_token", "a"), Pair("oauth_token_secret", "b")>>,
     <<Pair("oauth_token_secret", "a"), Pair("oauth_token", "b")>>,
     <<Pair("oauth_token", "a")>>,
     <<Pair("oauth_token_secret", "b")>>,
     <<Pair("oauth_token", ""), Pair("oauth_token_secret", "b")>>,
     <<Pair("oauth_token", "a"), Pair("oauth_token_secret", "")>>,
     <<Pair("oauth_token", ""), Pair("oauth_token", "a"), Pair("oauth_token_secret", "b")>>,
     <<Pair("oauth_token", "b"), Pair("oauth_token", "a"), Pair("oauth_token_secret", "a"),
       Pair("oauth_callback_confirmed", "true")>>}
Statuses == {200, 401}
Responses ==
    [kind : {"response"}, status : Statuses, body : Bodies]
        \cup {[kind |-> "error", status |-> 0, body |-> <<>>]}

\* Response.raise_for_status raises unless the status is 2xx
is_success(status) == status \div 100 = 2

\* urllib.parse.parse_qs: the values of each key in order, blank values dropped
parse_qs(body) ==
    LET kept == SelectSeq(body, LAMBDA p : p.v # "")
        keys == {kept[i].k : i \in 1..Len(kept)}
    IN [k \in keys |->
            LET of_k == SelectSeq(kept, LAMBDA p : p.k = k)
            IN [i \in 1..Len(of_k) |-> of_k[i].v]]

\* response_data.get(key, [None])[0]
first_value(response_data, key) ==
    IF key \in DOMAIN response_data THEN Some(response_data[key][1]) ELSE None

\* "not oauth_token or not oauth_token_secret"
incomplete(oauth_token, oauth_token_secret) ==
    \/ oauth_token = None \/ oauth_token = Some("")
    \/ oauth_token_secret = None \/ oauth_token_secret = Some("")

OAuthFlowError(F, text, detail) ==
    [exc |-> "OAuthFlowError", msg |-> [text |-> text, detail |-> detail],
     ret |-> None, fs |-> F]

\* an exception of a TokenStore call that the flow manager does not catch
Propagate(r) == [exc |-> r.exc, msg |-> [text |-> r.exc, detail |-> None],
                 ret |-> None, fs |-> r.fs]

Returned(F, v) == [exc |-> "none", msg |-> None, ret |-> Some(v), fs |-> F]

\* get_request_token from the answer of the request-token endpoint on
get_request_token_finish(F, resp, ok) ==
    IF resp.kind = "error"
    THEN OAuthFlowError(F, "Failed to get request token: ", Some("RequestError"))
    ELSE IF ~is_success(resp.status)
    THEN OAuthFlowError(F, "Failed to get request token: HTTP ", Some(resp.status))
    ELSE LET response_data == parse_qs(resp.body)
             oauth_token == first_value(response_data, "oauth_token")
             oauth_token_secret == first_value(response_data, "oauth_token_secret")
         IN IF incomplete(oauth_token, oauth_token_secret)
            THEN OAuthFlowError(F, "Invalid response from request token endpoint: ",
                                Some(resp.body))
            ELSE LET token == RequestToken(oauth_token[1], oauth_token_secret[1])
                     saved == save_request_token(F, token, ok)
                 IN IF saved.exc # "none" THEN Propagate(saved)
                    ELSE Returned(saved.fs, token)

clear_skipped(F, ok) == Return(F, None)

\* self._token_store.clear_request_token() of exchange_for_access_token
exchange_clear(F, ok) == clear_request_token(F, ok)

\* exchange_for_access_token from the answer of the access-token endpoint on
exchange_finish(F, resp, t, ok1, ok2) ==
    IF resp.kind = "error"
    THEN OAuthFlowError(F, "Failed to exchange for access token: ", Some("RequestError"))
    ELSE IF ~is_success(resp.status)
    THEN OAuthFlowError(F, "Failed to exchange for access token: HTTP ", Some(resp.status))
    ELSE LET response_data == parse_qs(resp.body)
             oauth_token == first_value(response_data, "oauth_token")
             oauth_token_secret == first_value(response_data, "oauth_token_secret")
         IN IF incomplete(oauth_token, oauth_token_secret)
            THEN OAuthFlowError(F, "Invalid response from access token endpoint: ",
                                Some(resp.body))
            ELSE LET user_token == UserToken(oauth_token[1], oauth_token_secret[1], Some(t))
                     saved == save_user_token(F, user_token, t, ok1)
                 IN IF saved.exc # "none" THEN Propagate(saved)
                    ELSE LET cleared == exchange_clear(saved.fs, ok2)
                         IN IF cleared.exc # "none" THEN Propagate(cleared)
                            ELSE Returned(cleared.fs, user_token)

no_token_never(request_token) == FALSE

\* "if not request_token" of exchange_for_access_token
no_request_token(request_token) == request_token = None

\* a completed call of the flow manager
Finished(op, arg, resp, r) ==
    [op |-> op, exc |-> r.exc, msg |-> r.msg, ret |-> r.ret,
     arg |-> arg, resp |-> resp, wrote |-> r.fs # fs, at |-> now, other |-> None]

\* used holds an entry for each get_request_token that saved a request token
\* and for each exchange_for_access_token that returned a user token, in the
\* order in which they ended; from is the get_request_token call whose request
\* token the call saved or exchanged (0: a token stored before the first call)
Issued(call, token) ==
    [kind |-> "issued", id |-> call.id, from |-> call.id, seq |-> Cardinality(used) + 1,
     token |-> token]
Exchanged(call) ==
    [kind |-> "exchanged", id |-> call.id, from |-> call.from,
     seq |-> Cardinality(used) + 1]

\* the get_request_token call that saved the request token the store holds
Latest(U) ==
    LET issued == {u \in U : u.kind = "issued"}
    IN IF issued = {} THEN 0
       ELSE (CHOOSE u \in issued : \A v \in issued : v.seq <= u.seq).id

\* get_request_token up to its await: sign, POST to the request-token endpoint
GetRequestTokenStart ==
    \E callback \in Callbacks :
        /\ sent < MaxSends
        /\ LET signer == Signer(settings, None, None)
               signed_params == sign_request(signer, oauth_request_token_url, POST,
                                    k_oauth_callback :> Str(callback), str(signed + 1), now)
           IN calls' = calls \cup {[id |-> sent + 1, op |-> "get_request_token",
                                    url |-> oauth_request_token_url,
                                    arg |-> callback, data |-> signed_params,
                                    from |-> sent + 1]}
        /\ signed' = signed + 1
        /\ sent' = sent + 1
        /\ UNCHANGED <<fs, now, last, procs, env, client, used>>

\* get_request_token from the provider's answer to its end
GetRequestTokenFinish ==
    \E call \in calls, resp \in Responses, ok \in BOOLEAN :
        /\ call.op = "get_request_token"
        /\ LET r == get_request_token_finish(fs, resp, ok)
           IN /\ fs' = r.fs
              /\ last' = Finished("get_request_token", call.arg, Some(resp), r)
              /\ used' = IF r.exc = "none" THEN used \cup {Issued(call, r.ret[1])} ELSE used
        /\ calls' = calls \ {call}
        /\ UNCHANGED <<now, sent, signed, procs, env, client>>

\* exchange_for_access_token up to its await, or to its end when no request
\* token is stored
ExchangeStart ==
    \E verifier \in Verifiers :
        LET loaded == load_request_token(fs)
        IN IF loaded.exc # "none"
           THEN /\ last' = Finished("exchange_for_access_token", verifier, None,
                                    Propagate(loaded))
                /\ UNCHANGED <<fs, now, calls, sent, signed, procs, env, client, used>>
           ELSE IF no_request_token(loaded.ret)
           THEN /\ last' = Finished("exchange_for_access_token", verifier, None,
                        OAuthFlowError(fs, "No request token found. ", None))
                /\ UNCHANGED <<fs, now, calls, sent, signed, procs, env, client, used>>
           ELSE /\ sent < MaxSends
                /\ LET request_token == IF loaded.ret = None
                                        THEN [oauth_token |-> None, oauth_token_secret |-> None]
                                        ELSE [oauth_token |->
                                                  Some(chars(loaded.ret[1].oauth_token)),
                                              oauth_token_secret |->
                                                  Some(chars(loaded.ret[1].oauth_token_secret))]
                       signer == Signer(settings, request_token.oauth_token,
                                        request_token.oauth_token_secret)
                       signed_params == sign_request(signer, oauth_access_token_url, POST,
                                            k_oauth_verifier :> Str(chars(verifier)),
                                            str(signed + 1), now)
                   IN calls' = calls \cup {[id |-> sent + 1,
                                            op |-> "exchange_for_access_token",
                                            url |-> oauth_access_token_url,
                                            arg |-> verifier, data |-> signed_params,
                                            from |-> Latest(used)]}
                /\ signed' = signed + 1
                /\ sent' = sent + 1
                /\ UNCHANGED <<fs, now, last, procs, env, client, used>>

\* the identifier of the request token an exchange signed its request with
Consumed(call) ==
    IF k_oauth_token \in DOMAIN call.data THEN Some(call.data[k_oauth_token].s) ELSE None

\* exchange_for_access_token from the provider's answer to its end
ExchangeFinish ==
    \E call \in calls, resp \in Responses, ok1 \in BOOLEAN, ok2 \in BOOLEAN :
        /\ call.op = "exchange_for_access_token"
        /\ LET r == exchange_finish(fs, resp, now, ok1, ok2)
           IN /\ fs' = r.fs
              /\ last' = [Finished("exchange_for_access_token", call.arg, Some(resp), r)
                              EXCEPT !.other = Consumed(call)]
              /\ used' = IF r.exc = "none" THEN used \cup {Exchanged(call)} ELSE used
        /\ calls' = calls \ {call}
        /\ UNCHANGED <<now, sent, signed, procs, env, client>>

FlowNext ==
    \/ Tick
    \/ GetRequestTokenStart
    \/ GetRequestTokenFinish
    \/ ExchangeStart
    \/ ExchangeFinish

\* the handshake: any number of get_request_token and exchange_for_access_token
\* calls on one store, interleaved at their awaits
FlowSpec == Init /\ [][FlowNext]_vars

(***************************************************************************)
(* _write_storage and _read_storage one system call at a time.             *)
(***************************************************************************)
WriteOps == {"save_user_token", "save_request_token",
             "delete_user_token", "clear_request_token"}

StepUserTokens == {UserToken("a", "b", Some(1)), UserToken("b", "a", None)}
StepRequestTokens == {RequestToken("b", "a")}

\* the files some process holds open
OpenFds == {procs[p].fd : p \in Procs} \ {0}
OpenFdsBut(p) == {procs[q].fd : q \in Procs \ {p}} \ {0}

\* what the storage file holds: None when there is no file
StorageContent(F) ==
    IF Exists(F, storage_path) THEN Some(Content(F, storage_path)) ELSE None

\* the data the operation writes, from the data it read
new_data(op, data, utoken, rtoken, t) ==
    CASE op = "save_user_token" -> user_token_saved(data, utoken, t)
      [] op = "save_request_token" -> request_token_saved(data, rtoken)
      [] op = "delete_user_token" -> dict_del(data, "user_token")
      [] op = "clear_request_token" -> dict_del(data, "request_token")

\* whether the operation writes at all
writes(op, data) ==
    CASE op = "delete_user_token" -> slot_present(data, "user_token")
      [] op = "clear_request_token" -> slot_present(data, "request_token")
      [] OTHER -> TRUE

\* the operation reads the storage file and prepares the data to write
Begin(p) ==
    \E op \in WriteOps, utoken \in StepUserTokens, rtoken \in StepRequestTokens :
        /\ procs[p].pc = "idle"
        /\ LET data == read_storage(fs)
           IN procs' = [procs EXCEPT ![p] =
                [IdleProc EXCEPT
                    !.pc = IF writes(op, data) THEN "open" ELSE "done",
                    !.op = op,
                    !.prev = StorageContent(fs),
                    !.data = IF writes(op, data)
                             THEN new_data(op, data, utoken, rtoken, now) ELSE data]]
        /\ UNCHANGED <<fs, now, last, calls, sent, signed, env, client, used>>

\* open(temp_path, "w")
OpenTemp(p) ==
    /\ procs[p].pc = "open"
    /\ Exists(fs, temp_path) \/ CanAllocate(fs, OpenFds)
    /\ LET F == OpenW(fs, temp_path, OpenFds)
       IN /\ fs' = F
          /\ procs' = [procs EXCEPT ![p].pc = "dump", ![p].fd = F.dir[temp_path],
                                    ![p].off = 0]
    /\ UNCHANGED <<now, last, calls, sent, signed, env, client, used>>

\* json.dump writes the next chunk; the file is closed after the last one
Dump(p) ==
    /\ procs[p].pc = "dump"
    /\ LET text == json_dump(procs[p].data)
           off == procs[p].off
           done == off + 1 = Len(text)
           F == WriteAt(fs, procs[p].fd, off, text[off + 1])
       IN /\ fs' = IF done THEN Collect(F, OpenFdsBut(p)) ELSE F
          /\ procs' = [procs EXCEPT ![p].off = off + 1,
                                    ![p].fd = IF done THEN 0 ELSE @,
                                    ![p].pc = IF done THEN "chmod" ELSE @]
    /\ UNCHANGED <<now, last, calls, sent, signed, env, client, used>>

\* os.chmod(temp_path, 0o600): FileNotFoundError when the name is gone
ChmodTemp(p) ==
    /\ procs[p].pc = "chmod"
    /\ IF Exists(fs, temp_path)
       THEN /\ fs' = Chmod(fs, temp_path, ModeOwnerRW)
            /\ procs' = [procs EXCEPT ![p].pc = "rename"]
       ELSE /\ fs' = fs
            /\ procs' = [procs EXCEPT ![p].pc = "failed",
                                      ![p].exc = "FileNotFoundError"]
    /\ UNCHANGED <<now, last, calls, sent, signed, env, client, used>>

\* temp_path.rename(self._storage_path): FileNotFoundError when the name is gone
RenameTemp(p) ==
    /\ procs[p].pc = "rename"
    /\ IF Exists(fs, temp_path)
       THEN /\ fs' = Collect(Rename(fs, temp_path, storage_path), OpenFds)
            /\ procs' = [q \in Procs |->
                            IF q = p THEN [procs[q] EXCEPT !.pc = "done", !.latest = TRUE]
                            ELSE [procs[q] EXCEPT !.latest = FALSE]]
       ELSE /\ fs' = fs
            /\ procs' = [procs EXCEPT ![p].pc = "failed",
                                      ![p].exc = "FileNotFoundError"]
    /\ UNCHANGED <<now, last, calls, sent, signed, env, client, used>>

InWrite == {"open", "dump", "chmod", "rename"}

\* the process stops in the middle of a write; its open file is closed
Crash(p) ==
    /\ procs[p].pc \in InWrite
    /\ procs' = [procs EXCEPT ![p].pc = "crashed", ![p].fd = 0]
    /\ fs' = Collect(fs, OpenFdsBut(p))
    /\ UNCHANGED <<now, last, calls, sent, signed, env, client, used>>

\* the call has returned, raised or the process was started again
Reset(p) ==
    /\ procs[p].pc \in {"done", "failed", "crashed"}
    /\ procs' = [procs EXCEPT ![p] = IdleProc]
    /\ UNCHANGED <<fs, now, last, calls, sent, signed, env, client, used>>

\* _read_storage of a load: exists(), then open(); prev is what the storage
\* file holds at this moment
ReadOpen(p) ==
    /\ procs[p].pc = "idle"
    /\ IF Exists(fs, storage_path) /\ Readable(fs, storage_path)
       THEN procs' = [procs EXCEPT ![p] =
                [IdleProc EXCEPT !.pc = "opened", !.op = "load",
                                 !.prev = StorageContent(fs),
                                 !.fd = fs.dir[storage_path]]]
       ELSE procs' = [procs EXCEPT ![p] =
                [IdleProc EXCEPT !.pc = "done", !.op = "load",
                                 !.prev = StorageContent(fs)]]
    /\ UNCHANGED <<fs, now, last, calls, sent, signed, env, client, used>>

\* json.load(f) on the open file: {} on JSONDecodeError
ReadLoad(p) ==
    /\ procs[p].pc = "opened"
    /\ LET r == json_load(fs.inodes[procs[p].fd].content)
       IN procs' = [procs EXCEPT ![p].pc = "done", ![p].fd = 0,
                                 ![p].data = IF r.ok THEN r.val ELSE EmptyDict,
                                 ![p].exc = IF r.ok THEN "none" ELSE "JSONDecodeError"]
    /\ fs' = Collect(fs, OpenFdsBut(p))
    /\ UNCHANGED <<now, last, calls, sent, signed, env, client, used>>

\* one call of a writing operation, step by step
WriteCall(p) ==
    \/ Begin(p)
    \/ OpenTemp(p)
    \/ Dump(p)
    \/ ChmodTemp(p)
    \/ RenameTemp(p)

CrashNext ==
    \/ WriteCall("w1")
    \/ Reset("w1")
    \/ Crash("w1")
    \/ ReadOpen(Reader)
    \/ ReadLoad(Reader)
    \/ Reset(Reader)

\* one process that writes and may stop at any step, and a reader
CrashSpec == Init /\ [][CrashNext]_vars

\* the storage directory after earlier calls: empty, or a storage file that
\* holds a user token, a request token or both
StoredFs ==
    {EmptyFs,
     write_storage(EmptyFs, user_token_saved(EmptyDict, UserToken("b", "a", Some(1)), 1)),
     write_storage(EmptyFs, request_token_saved(EmptyDict, RequestToken("a", "b"))),
     write_storage(EmptyFs, request_token_saved(
        user_token_saved(EmptyDict, UserToken("b", "a", Some(1)), 1),
        RequestToken("a", "b")))}

RaceInit ==
    /\ fs \in StoredFs
    /\ now = 1
    /\ last = NoCall
    /\ calls = {}
    /\ sent = 0
    /\ signed = 0
    /\ procs = [p \in Procs |-> IdleProc]
    /\ env = NoEnv
    /\ client = None
    /\ used = {}

RaceNext == \E p \in Writers : WriteCall(p)

\* two processes that each make one writing call on the same storage path
RaceSpec == RaceInit /\ [][RaceNext]_vars

\* the handshake on a store that earlier calls have written
StoredInit ==
    /\ fs \in StoredFs
    /\ now = 1
    /\ last = NoCall
    /\ calls = {}
    /\ sent = 0
    /\ signed = 0
    /\ procs = [p \in Procs |-> IdleProc]
    /\ env = NoEnv
    /\ client = None
    /\ used = {}

ResumeSpec == StoredInit /\ [][FlowNext]_vars

(***************************************************************************)
(* A storage file that something else than the TokenStore has written.     *)
(***************************************************************************)
Member(key, val) == [c |-> "member", key |-> key, val |-> val]
Document(members) == <<[c |-> "open"]>> \o members \o <<[c |-> "close"]>>

ForeignFiles ==
    {[content |-> <<[c |-> "text"]>>, mode |-> ModeOwnerRW],                 \* not JSON
     [content |-> <<[c |-> "open"]>>, mode |-> ModeOwnerRW],                 \* cut short
     [content |-> json_dump(Arr), mode |-> ModeOwnerRW],                     \* []
     [content |-> json_dump(Null), mode |-> ModeOwnerRW],                    \* null
     [content |-> json_dump(Str("a")), mode |-> ModeOwnerRW],                \* "a"
     [content |-> json_dump(Num(1)), mode |-> ModeOwnerRW],                  \* 1
     [content |-> Document(<<Member("user_token", Null)>>), mode |-> ModeOwnerRW],
     [content |-> Document(<<Member("user_token", Str("a"))>>), mode |-> ModeOwnerRW],
     [content |-> Document(<<Member("user_token", Obj([oauth_token |-> Str("a")]))>>),
      mode |-> ModeOwnerRW],
     [content |-> Document(<<Member("request_token", Obj([oauth_token |-> Str("a")]))>>),
      mode |-> ModeOwnerRW],
     [content |-> Document(<<Member("request_token", request_token_dict(
                                RequestToken("a", "b")))>>), mode |-> 0]}        \* unreadable

\* the storage file is replaced from outside
Foreign ==
    \E f \in ForeignFiles :
        /\ LET F == IF Exists(fs, storage_path) THEN fs
                    ELSE OpenW(fs, storage_path, {})
           IN fs' = [F EXCEPT !.inodes[F.dir[storage_path]] = f]
        /\ last' = NoCall
        /\ UNCHANGED <<now, calls, sent, signed, procs, env, client, used>>

ForeignNext == StoreNext \/ Foreign

\* the TokenStore operations on a storage file that may hold anything
ForeignSpec == Init /\ [][ForeignNext]_vars

(***************************************************************************)
(* The store on a path whose directories may or may not exist beforehand,  *)
(* and may be removed or filled from outside while the store is in use.    *)
(***************************************************************************)
OtherDir(mode) == [exists |-> TRUE, mode |-> mode, made |-> FALSE]

\* what is there before TokenStore(storage_path): nothing, ~/.config only, or
\* both directories, the inner one made by somebody else with the default mode
TreesBefore ==
    {[i \in DOMAIN DirChain |-> NoDir],
     [i \in DOMAIN DirChain |-> IF i = directory THEN NoDir ELSE OtherDir(ModeDirDefault)],
     [i \in DOMAIN DirChain |-> OtherDir(ModeDirDefault)]}

\* TokenStore.__init__: self._ensure_directory()
DirInit ==
    /\ fs \in {ensure_directory([NoFiles EXCEPT !.tree = t]) : t \in TreesBefore}
    /\ now = 1
    /\ last = NoCall
    /\ calls = {}
    /\ sent = 0
    /\ signed = 0
    /\ procs = [p \in Procs |-> IdleProc]
    /\ env = NoEnv
    /\ client = None
    /\ used = {}

\* a directory of the chain is removed from outside with all it holds
RemoveDirectory ==
    \E k \in DOMAIN DirChain :
        /\ fs.tree[k].exists
        /\ fs' = Collect([fs EXCEPT
                    !.tree = [i \in DOMAIN DirChain |-> IF i >= k THEN NoDir ELSE @[i]],
                    !.dir = [p \in Paths |-> 0]], {})
        /\ last' = NoCall
        /\ UNCHANGED <<now, calls, sent, signed, procs, env, client, used>>

\* a file is created from outside under the storage or the temporary name,
\* with the mode open(path, "w") gives a new file
PlaceFile ==
    \E p \in Paths :
        /\ fs.tree[directory].exists
        /\ ~Exists(fs, p)
        /\ LET F == OpenW(fs, p, {})
           IN fs' = WriteAll(F, F.dir[p], json_dump(EmptyDict), 0)
        /\ last' = NoCall
        /\ UNCHANGED <<now, calls, sent, signed, procs, env, client, used>>

DirNext == StoreNext \/ RemoveDirectory \/ PlaceFile

DirSpec == DirInit /\ [][DirNext]_vars

(***************************************************************************)
(* EnvTokenStore: the user token comes from the environment variables      *)
(* FATSECRET_USER_TOKEN and FATSECRET_USER_TOKEN_SECRET.                   *)
(***************************************************************************)
\* what os.environ.get gives for one variable: None when it is not set
EnvValues == {None, Some(""), Some("a"), Some("b")}

Envs == [FATSECRET_USER_TOKEN : EnvValues, FATSECRET_USER_TOKEN_SECRET : EnvValues,
         is_cloud : {TRUE}]

env_unset_none(v) == v = None

\* "not oauth_token": the variable is not set or is the empty string
env_unset(v) == v = None \/ v = Some("")

env_load_user_token(F, E) ==
    LET oauth_token == E.FATSECRET_USER_TOKEN
        oauth_token_secret == E.FATSECRET_USER_TOKEN_SECRET
    IN IF env_unset(oauth_token) \/ env_unset(oauth_token_secret)
       THEN Return(F, None)
       ELSE Return(F, Some(UserToken(oauth_token[1], oauth_token_secret[1], None)))

env_save_user_token(F, E, token) == Raise(F, "NotImplementedError")

env_delete_user_token(F, E) == Return(F, None)

env_save_request_token(F, E, token) == Raise(F, "NotImplementedError")

env_load_request_token(F, E) == Return(F, None)

env_clear_request_token(F, E) == Return(F, None)

env_has_user_token(F, E) ==
    Return(F, ~env_unset(E.FATSECRET_USER_TOKEN)
                /\ ~env_unset(E.FATSECRET_USER_TOKEN_SECRET))

\* what EnvTokenStore.load_user_token gives: exception and result
EnvSlot(E) == LET r == env_load_user_token(fs, E) IN <<r.exc, r.ret>>

\* the server has started on a cloud deployment with any values of the variables
EnvInit ==
    /\ fs = EmptyFs
    /\ now = 1
    /\ last = NoCall
    /\ calls = {}
    /\ sent = 0
    /\ signed = 0
    /\ procs = [p \in Procs |-> IdleProc]
    /\ env \in Envs
    /\ client = None
    /\ used = {}

\* a completed call of an EnvTokenStore operation
EnvCall(op, arg, r) ==
    /\ fs' = r.fs
    /\ last' = Completed(op, arg, r, EnvSlot(env))
    /\ UNCHANGED <<now, calls, sent, signed, procs, env, client, used>>

EnvLoadUserToken == EnvCall("EnvTokenStore.load_user_token", None, env_load_user_token(fs, env))

EnvSaveUserToken ==
    \E token \in UserTokens :
        EnvCall("EnvTokenStore.save_user_token", Some(token), env_save_user_token(fs, env, token))

EnvDeleteUserToken ==
    EnvCall("EnvTokenStore.delete_user_token", None, env_delete_user_token(fs, env))

EnvSaveRequestToken ==
    \E token \in RequestTokens :
        EnvCall("EnvTokenStore.save_request_token", Some(token),
                env_save_request_token(fs, env, token))

EnvLoadRequestToken ==
    EnvCall("EnvTokenStore.load_request_token", None, env_load_request_token(fs, env))

EnvClearRequestToken ==
    EnvCall("EnvTokenStore.clear_request_token", None, env_clear_request_token(fs, env))

EnvHasUserToken ==
    EnvCall("EnvTokenStore.has_user_token", None, env_has_user_token(fs, env))

EnvNext ==
    \/ EnvLoadUserToken
    \/ EnvSaveUserToken
    \/ EnvDeleteUserToken
    \/ EnvSaveRequestToken
    \/ EnvLoadRequestToken
    \/ EnvClearRequestToken
    \/ EnvHasUserToken

\* the EnvTokenStore operations called in any order
EnvSpec == EnvInit /\ [][EnvNext]_vars

(***************************************************************************)
(* sign_request called on its own, with signers, targets and parameter     *)
(* mappings of every kind: with and without a user token, secrets and keys *)
(* that percent-encoding changes, application parameters named like OAuth  *)
(* parameters.                                                             *)
(***************************************************************************)
api_base_url ==
    <<"h", "t", "t", "p", "s", ":", "/", "/", "p", "l", "a", "t", "f", "o",
      "r", "m", ".", "f", "a", "t", "s", "e", "c", "r", "e", "t", ".", "c",
      "o", "m", "/", "r", "e", "s", "t", "/", "s", "e", "r", "v", "e", "r",
      ".", "a", "p", "i">>

TwoLegged == Signer(settings, None, None)
EmptyToken == Signer(settings, Some(<<>>), Some(<<>>))
ThreeLegged == Signer(settings, Some(<<"a">>), Some(<<"b">>))
ReservedSecrets ==
    Signer([consumer_key |-> ConsumerKey, consumer_secret |-> <<"c", "&">>],
           Some(<<"a">>), Some(<<"/">>))

Signers == {TwoLegged, EmptyToken, ThreeLegged, ReservedSecrets}

ApiPost == [url |-> api_base_url, method |-> POST]
OtherGet == [url |-> <<"h", ":", "/">>, method |-> <<"g", "e", "t">>]

NoParams == <<>>
OwnParams ==
    (<<"m">> :> Str(<<"f", ".", "s">>)) @@ (<<"a", " ", "b">> :> Str(<<"c", "/", "d">>))
TokenParam == (<<"m">> :> Str(<<"f">>)) @@ (k_oauth_token :> Str(<<"z">>))
NonceParam == (<<"m">> :> Str(<<"f">>)) @@ (k_oauth_nonce :> Str(<<"9">>))
SignatureParam == (k_oauth_signature :> Str(<<"x">>)) @@ (k_oauth_version :> Str(<<"2">>))
\* two keys that percent-encoding puts in the other order: "-" stays, "/" is "%2F"
SlashParams == (<<"a", "/">> :> Str(<<"1">>)) @@ (<<"a", "-">> :> Str(<<"2">>))

SignCall(signer, target, params) ==
    [signer |-> signer, url |-> target.url, method |-> target.method, params |-> params]

\* the calls made: every kind of signer, with parameters of its own and with
\* parameters named like OAuth parameters
SignCalls ==
    {SignCall(TwoLegged, ApiPost, OwnParams),
     SignCall(TwoLegged, ApiPost, TokenParam),
     SignCall(TwoLegged, OtherGet, NoParams),
     SignCall(EmptyToken, ApiPost, OwnParams),
     SignCall(EmptyToken, ApiPost, TokenParam),
     SignCall(ThreeLegged, ApiPost, OwnParams),
     SignCall(ThreeLegged, ApiPost, NonceParam),
     SignCall(ThreeLegged, OtherGet, TokenParam),
     SignCall(ThreeLegged, ApiPost, SlashParams),
     SignCall(ReservedSecrets, ApiPost, SignatureParam),
     SignCall(ReservedSecrets, OtherGet, OwnParams)}

\* what secrets.token_hex may return
Nonces == {<<"0">>, <<"f">>}

\* one call of sign_request; other is the call before: what it was given, the
\* time it was made at, what it returned
Sign ==
    \E call \in SignCalls, nonce \in Nonces :
        /\ signed < MaxSigns
        /\ signed' = signed + 1
        /\ last' = [op |-> "sign_request", exc |-> "none", msg |-> None,
                    ret |-> Some(sign_request(call.signer, call.url, call.method,
                                              call.params, nonce, now)),
                    arg |-> Some([signer |-> call.signer, url |-> call.url,
                                  method |-> call.method, params |-> call.params,
                                  nonce |-> nonce]),
                    resp |-> None, wrote |-> FALSE, at |-> now,
                    other |-> IF last.op = "sign_request"
                              THEN Some([arg |-> last.arg[1], at |-> last.at,
                                         ret |-> last.ret[1]])
                              ELSE None]
        /\ UNCHANGED <<fs, now, calls, sent, procs, env, client, used>>

SignNext == Tick \/ Sign

SignSpec == Init /\ [][SignNext]_vars

\* _percent_encode on its own: every string of at most MaxLen characters
MaxLen == 2

Characters == {CodePoints[i] : i \in DOMAIN CodePoints}

Strings == UNION {[1..n -> Characters] : n \in 0..MaxLen}

\* the call to make: OAuth1Signer._percent_encode(value)
EncodeInit ==
    /\ fs = EmptyFs
    /\ now = 1
    /\ last = NoCall
    /\ calls \in {{[op |-> "percent_encode", arg |-> value]} : value \in Strings}
    /\ sent = 0
    /\ signed = 0
    /\ procs = [p \in Procs |-> IdleProc]
    /\ env = NoEnv
    /\ client = None
    /\ used = {}

\* the call is made
Encode ==
    \E call \in calls :
        /\ call.op = "percent_encode"
        /\ calls' = calls \ {call}
        /\ last' = [op |-> "percent_encode", exc |-> "none", msg |-> None,
                    ret |-> Some(percent_encode(call.arg)), arg |-> Some(call.arg),
                    resp |-> None, wrote |-> FALSE, at |-> now, other |-> None]
        /\ UNCHANGED <<fs, now, sent, signed, procs, env, client, used>>

EncodeNext == Encode

EncodeSpec == EncodeInit /\ [][EncodeNext]_vars

(***************************************************************************)
(* FatSecretClient                                                         *)
(***************************************************************************)
k_method ==
    <<"m", "e", "t", "h", "o", "d">>
k_format ==
    <<"f", "o", "r", "m", "a", "t">>
json ==
    <<"j", "s", "o", "n">>
k_search_expression ==
    <<"s", "e", "a", "r", "c", "h", "_", "e", "x", "p", "r", "e", "s", "s",
      "i", "o", "n">>
k_page_number ==
    <<"p", "a", "g", "e", "_", "n", "u", "m", "b", "e", "r">>
k_max_results ==
    <<"m", "a", "x", "_", "r", "e", "s", "u", "l", "t", "s">>
k_food_id ==
    <<"f", "o", "o", "d", "_", "i", "d">>
k_barcode ==
    <<"b", "a", "r", "c", "o", "d", "e">>
k_recipe_id ==
    <<"r", "e", "c", "i", "p", "e", "_", "i", "d">>
k_serving_id ==
    <<"s", "e", "r", "v", "i", "n", "g", "_", "i", "d">>
k_number_of_units ==
    <<"n", "u", "m", "b", "e", "r", "_", "o", "f", "_", "u", "n", "i", "t",
      "s">>
k_meal ==
    <<"m", "e", "a", "l">>
k_food_entry_id ==
    <<"f", "o", "o", "d", "_", "e", "n", "t", "r", "y", "_", "i", "d">>
k_current_weight_kg ==
    <<"c", "u", "r", "r", "e", "n", "t", "_", "w", "e", "i", "g", "h", "t",
      "_", "k", "g">>
k_date ==
    <<"d", "a", "t", "e">>

\* the API method each operation of the client calls
api_method ==
    [search_foods |-> <<"f", "o", "o", "d", "s", ".", "s", "e", "a", "r", "c", "h">>,
     get_food |-> <<"f", "o", "o", "d", ".", "g", "e", "t", ".", "v", "4">>,
     find_food_by_barcode |-> <<"f", "o", "o", "d", ".", "f", "i", "n", "d", "_", "i", "d", "_", "f", "o", "r", "_", "b", "a", "r", "c", "o", "d", "e">>,
     get_recipe |-> <<"r", "e", "c", "i", "p", "e", ".", "g", "e", "t", ".", "v", "2">>,
     get_food_diary |-> <<"f", "o", "o", "d", "_", "e", "n", "t", "r", "i", "e", "s", ".", "g", "e", "t", ".", "v", "2">>,
     add_food_entry |-> <<"f", "o", "o", "d", "_", "e", "n", "t", "r", "y", ".", "c", "r", "e", "a", "t", "e">>,
     delete_food_entry |-> <<"f", "o", "o", "d", "_", "e", "n", "t", "r", "y", ".", "d", "e", "l", "e", "t", "e">>,
     get_weight_month |-> <<"w", "e", "i", "g", "h", "t", "s", ".", "g", "e", "t", "_", "m", "o", "n", "t", "h">>,
     update_weight |-> <<"w", "e", "i", "g", "h", "t", ".", "u", "p", "d", "a", "t", "e">>]

ApiOps == DOMAIN api_method

\* the operations that start with self._require_user_auth()
UserOps == {"get_food_diary", "add_food_entry", "delete_food_entry", "get_weight_month", "update_weight"}

\* the params each operation builds, for the arguments the model calls it with;
\* a date that is not given is today's
api_params(op, t) ==
    CASE op = "search_foods" ->
            (k_search_expression :> <<"a", " ", "b">>)
                @@ (k_page_number :> <<"0">>)
                @@ (k_max_results :> <<"2", "0">>)
      [] op = "get_food" ->
            (k_food_id :> <<"1">>)
      [] op = "find_food_by_barcode" ->
            (k_barcode :> <<"1">>)
      [] op = "get_recipe" ->
            (k_recipe_id :> <<"1">>)
      [] op = "get_food_diary" ->
            (k_date :> str(t))
      [] op = "add_food_entry" ->
            (k_food_id :> <<"1">>)
                @@ (k_serving_id :> <<"1">>)
                @@ (k_number_of_units :> <<"1", ".", "0">>)
                @@ (k_meal :> <<"o", "t", "h", "e", "r">>)
      [] op = "delete_food_entry" ->
            (k_food_entry_id :> <<"1">>)
      [] op = "get_weight_month" ->
            (k_date :> str(t))
      [] op = "update_weight" ->
            (k_current_weight_kg :> <<"1", ".", "0">>)

\* FatSecretClient(settings, user_token): the signer carries the token's strings
FatSecretClient(s, user_token) ==
    [user_token |-> user_token,
     signer |-> IF user_token # None
                THEN Signer(s, Some(chars(user_token[1].oauth_token)),
                            Some(chars(user_token[1].oauth_token_secret)))
                ELSE Signer(s, None, None),
     closed |-> FALSE]

\* "self._user_token is not None"
is_user_authenticated(c) == c.user_token # None

require_nothing(c) == FALSE

\* _require_user_auth: whether it raises UserNotAuthenticatedError
require_user_auth(c) == ~is_user_authenticated(c)

\* request_params of _make_request: method and format, then str() of each param
request_params(op, t) ==
    LET all == Merge((k_method :> api_method[op]) @@ (k_format :> json),
                     api_params(op, t))
    IN [k \in DOMAIN all |-> Str(all[k])]

\* the exception classes that "except APIError" catches
APIErrors == {"APIError", "RateLimitError", "FoodNotFoundError",
              "RecipeNotFoundError", "BarcodeNotFoundError"}

\* what the API may answer: a status and a body (a JSON object with or without
\* an error member, or text that is not JSON), or no answer at all
OtherCode == 2
ErrorCodes == {Some(9), Some(106), Some(107), Some(110), Some(OtherCode), None}
ApiBody(kind, payload, code) == [kind |-> kind, payload |-> payload, code |-> code]
ApiBodies ==
    {ApiBody("data", p, None) : p \in {"full", "empty"}}
        \cup {ApiBody("error", "empty", c) : c \in ErrorCodes}
        \cup {ApiBody("text", "empty", None)}
ApiResponses ==
    {[kind |-> "response", status |-> 200, body |-> b] : b \in ApiBodies}
        \cup {[kind |-> "response", status |-> s, body |-> ApiBody("text", "empty", None)] :
                 s \in {429, 500}}
        \cup {[kind |-> "error", status |-> 0, body |-> ApiBody("text", "empty", None)]}

\* an exception with its error_code, or a returned value
Raised(class, code) == [exc |-> class, code |-> code, ret |-> None]
Gives(v) == [exc |-> "none", code |-> None, ret |-> Some(v)]

error_class_shifted(error_code) ==
    CASE error_code = Some(9) -> "RateLimitError"
      [] error_code = Some(106) -> "RecipeNotFoundError"
      [] error_code = Some(107) -> "FoodNotFoundError"
      [] error_code = Some(110) -> "BarcodeNotFoundError"
      [] OTHER -> "APIError"

\* the exception _make_request raises for the code of an error object
error_class(error_code) ==
    CASE error_code = Some(9) -> "RateLimitError"
      [] error_code = Some(106) -> "FoodNotFoundError"
      [] error_code = Some(107) -> "RecipeNotFoundError"
      [] error_code = Some(110) -> "BarcodeNotFoundError"
      [] OTHER -> "APIError"

\* _make_request from the answer of the API on
make_request(resp) ==
    IF resp.kind = "error" THEN Raised("APIError", None)
    ELSE IF ~is_success(resp.status)
    THEN IF resp.status = 429 THEN Raised("RateLimitError", Some(9))
         ELSE Raised("APIError", None)
    ELSE IF resp.body.kind = "text" THEN Raised("JSONDecodeError", None)
    ELSE IF resp.body.kind = "error"
    THEN Raised(error_class(resp.body.code), resp.body.code)
    ELSE Gives(resp.body.payload)

\* the error code an operation turns into its own not-found error, and the error
NotFoundCode ==
    [get_food |-> 106, find_food_by_barcode |-> 106, get_recipe |-> 107]
NotFoundError ==
    [get_food |-> "FoodNotFoundError", find_food_by_barcode |-> "BarcodeNotFoundError",
     get_recipe |-> "RecipeNotFoundError"]

\* the operations that build a model object that has required fields
Validated == {"get_food", "get_recipe"}

\* an operation from the end of its _make_request on: r is what _make_request
\* gave; "continue" stands for find_food_by_barcode going on to get_food
operation_finish(op, r) ==
    IF r.exc # "none"
    THEN IF /\ op \in DOMAIN NotFoundCode
            /\ r.exc \in APIErrors
            /\ r.code = Some(NotFoundCode[op])
         THEN Raised(NotFoundError[op], r.code)
         ELSE r
    ELSE IF op = "find_food_by_barcode"
    THEN IF r.ret = Some("empty") THEN Raised("BarcodeNotFoundError", None)
         ELSE Gives("continue")
    ELSE IF op \in Validated /\ r.ret = Some("empty") THEN Raised("ValidationError", None)
    ELSE r

\* a completed call of the client: raised is what _make_request gave
ApiDone(op, stage, resp, raised, r) ==
    [op |-> op, exc |-> r.exc, msg |-> None, ret |-> r.ret,
     arg |-> Some(stage), resp |-> resp, wrote |-> FALSE, at |-> now, other |-> None,
     code |-> r.code, raised |-> raised]

\* the request _make_request signs and POSTs; stage is the operation whose
\* request it is
ApiCall(c, op, stage) ==
    [id |-> sent + 1, op |-> op, url |-> api_base_url, arg |-> stage,
     data |-> sign_request(c.signer, api_base_url, POST, request_params(stage, now),
                           str(signed + 1), now),
     client |-> c]

\* an operation of the client up to its await, or to its end when it needs a
\* user token and the client has none, or when the client has been closed:
\* httpx refuses to send on a closed client with a RuntimeError
ApiStart ==
    \E op \in ApiOps :
        /\ client # None
        /\ IF op \in UserOps /\ require_user_auth(client[1])
           THEN /\ last' = ApiDone(op, op, None, None,
                                   Raised("UserNotAuthenticatedError", None))
                /\ UNCHANGED <<fs, now, calls, sent, signed, procs, env, client, used>>
           ELSE IF client[1].closed
           THEN /\ last' = ApiDone(op, op, None, None, Raised("RuntimeError", None))
                /\ UNCHANGED <<fs, now, calls, sent, signed, procs, env, client, used>>
           ELSE /\ sent < MaxSends
                /\ calls' = calls \cup {ApiCall(client[1], op, op)}
                /\ signed' = signed + 1
                /\ sent' = sent + 1
                /\ UNCHANGED <<fs, now, last, procs, env, client, used>>

\* an operation from the API's answer to its end; find_food_by_barcode goes on
\* to the request of get_food with the signer of the same client
ApiFinish ==
    \E call \in calls, resp \in ApiResponses :
        /\ call.op \in ApiOps
        /\ LET raised == make_request(resp)
               r == operation_finish(call.arg, raised)
           IN IF r.ret = Some("continue")
              THEN /\ sent < MaxSends
                   /\ calls' = (calls \ {call})
                                   \cup {ApiCall(call.client, call.op, "get_food")}
                   /\ signed' = signed + 1
                   /\ sent' = sent + 1
                   /\ UNCHANGED last
              ELSE /\ calls' = calls \ {call}
                   /\ last' = ApiDone(call.op, call.arg, Some(resp), Some(raised), r)
                   /\ UNCHANGED <<sent, signed>>
        /\ UNCHANGED <<fs, now, procs, env, client, used>>

\* the clients an application may construct: without a user token, with one
Supplied == {None, Some(UserToken("a", "b", Some(1))), Some(UserToken("", "b", None))}
ApiClients == {FatSecretClient(settings, u) : u \in Supplied}

\* a client of each kind; its operations do not wait for the clock
ApiInit ==
    /\ fs = EmptyFs
    /\ now = 1
    /\ last = NoCall
    /\ calls = {}
    /\ sent = 0
    /\ signed = 0
    /\ procs = [p \in Procs |-> IdleProc]
    /\ env = NoEnv
    /\ client \in {Some(c) : c \in ApiClients}
    /\ used = {}

ApiNext ==
    \/ ApiStart
    \/ ApiFinish

\* one client, its operations called in any order and interleaved at their awaits
ApiSpec == ApiInit /\ [][ApiNext]_vars

NetworkNext ==
    \/ GetRequestTokenStart
    \/ GetRequestTokenFinish
    \/ ExchangeStart
    \/ ExchangeFinish
    \/ ApiStart
    \/ ApiFinish

\* the handshake and the client side by side.  Both POST with an
\* httpx.AsyncClient() built without arguments, whose default timeout of five
\* seconds ends every await of post(): with the answer, or with an
\* httpx.RequestError when the connection is refused or nothing arrives in
\* time.  So no call stays at its await for ever.
NetworkSpec ==
    /\ ApiInit
    /\ [][NetworkNext]_vars
    /\ WF_vars(GetRequestTokenFinish)
    /\ WF_vars(ExchangeFinish)
    /\ WF_vars(ApiFinish)

(***************************************************************************)
(* The MCP server (server.py): its lifespan and its account tools.         *)
(***************************************************************************)
\* os.environ of a cloud deployment (RAILWAY_ENVIRONMENT or RENDER is set)
CloudEnv(tok, sec) ==
    [FATSECRET_USER_TOKEN |-> tok, FATSECRET_USER_TOKEN_SECRET |-> sec, is_cloud |-> TRUE]

\* the environments the server starts in: a local one, and cloud deployments
\* with and without the variables of the user token
ServerEnvs ==
    {NoEnv, CloudEnv(None, None), CloudEnv(Some("a"), Some("b")),
     CloudEnv(Some("a"), Some(""))}

\* the operations of _token_store, which is an EnvTokenStore on a cloud
\* deployment and a TokenStore otherwise
store_load_user_token(F, E) ==
    IF E.is_cloud THEN env_load_user_token(F, E) ELSE load_user_token(F)
store_load_request_token(F, E) ==
    IF E.is_cloud THEN env_load_request_token(F, E) ELSE load_request_token(F)
store_delete_user_token(F, E, ok) ==
    IF E.is_cloud THEN env_delete_user_token(F, E) ELSE delete_user_token(F, ok)
store_clear_request_token(F, E, ok) ==
    IF E.is_cloud THEN env_clear_request_token(F, E) ELSE clear_request_token(F, ok)

\* lifespan up to its yield: the token store, then the client with the user
\* token the store holds
lifespan(F, E) ==
    LET F1 == IF E.is_cloud THEN F ELSE ensure_directory(F)
        user_token == store_load_user_token(F1, E)
    IN [fs |-> F1, client |-> Some(FatSecretClient(settings, user_token.ret))]

\* FatSecretClient.close: the transport of the client is closed
close(c) == [c EXCEPT !.closed = TRUE]

\* the requests in flight hold the client object they were started on: closing
\* it closes it under them
closed_under(C, c) ==
    {IF "client" \in DOMAIN call /\ call.client = c
     THEN [call EXCEPT !.client = close(c)] ELSE call : call \in C}

\* _reinitialize_client after its await: load the user token, make a new client
reinitialize_client(F, E, c) ==
    LET user_token == store_load_user_token(F, E)
    IN IF user_token.exc # "none" THEN [exc |-> user_token.exc, client |-> c]
       ELSE [exc |-> "none",
             client |-> Some(FatSecretClient(settings, user_token.ret))]

\* what the tools return
ToConnect == "To connect your FatSecret account:"
NotAvailable == "OAuth flow not available on cloud deployment. "
ErrorStarting == "Error starting authentication: "
Unexpected == "Unexpected error: "
Success == "Success! Your FatSecret account is now connected."
ErrorCompleting == "Error completing authentication: "
Disconnected == "Disconnected: Your FatSecret account has been unlinked."
ErrorDisconnecting == "Error disconnecting account: "

\* the except clauses of start_authentication
start_authentication_text(exc) ==
    CASE exc = "none" -> ToConnect
      [] exc = "RuntimeError" -> NotAvailable
      [] exc = "OAuthFlowError" -> ErrorStarting
      [] OTHER -> Unexpected

\* the except clauses of complete_authentication
complete_authentication_text(exc) ==
    CASE exc = "none" -> Success
      [] exc = "OAuthFlowError" -> ErrorCompleting
      [] OTHER -> Unexpected

\* the except clause of disconnect_account
disconnect_account_text(exc) ==
    IF exc = "none" THEN Disconnected ELSE ErrorDisconnecting

\* a completed call of a tool: the text it returned and the exception it caught
ToolDone(op, resp, text, exc, wrote) ==
    [op |-> op, exc |-> "none", msg |-> [text |-> text, detail |-> exc],
     ret |-> Some(text), arg |-> None, resp |-> resp, wrote |-> wrote, at |-> now,
     other |-> None]

\* start_authentication up to the await of get_request_token, or to its end on
\* a cloud deployment, where _get_oauth_flow raises RuntimeError
StartAuthenticationStart ==
    IF env.is_cloud
    THEN /\ last' = ToolDone("start_authentication", None,
                             start_authentication_text("RuntimeError"), "RuntimeError",
                             FALSE)
         /\ UNCHANGED <<fs, now, calls, sent, signed, procs, env, client, used>>
    ELSE /\ sent < MaxSends
         /\ LET signer == Signer(settings, None, None)
                signed_params == sign_request(signer, oauth_request_token_url, POST,
                                     k_oauth_callback :> Str(oob), str(signed + 1), now)
            IN calls' = calls \cup {[id |-> sent + 1, op |-> "start_authentication",
                                     url |-> oauth_request_token_url,
                                     arg |-> "get_request_token", data |-> signed_params,
                                     from |-> sent + 1]}
         /\ signed' = signed + 1
         /\ sent' = sent + 1
         /\ UNCHANGED <<fs, now, last, procs, env, client, used>>

\* start_authentication from the provider's answer to its end
StartAuthenticationFinish ==
    \E call \in calls, resp \in Responses, ok \in BOOLEAN :
        /\ call.op = "start_authentication"
        /\ LET r == get_request_token_finish(fs, resp, ok)
           IN /\ fs' = r.fs
              /\ last' = ToolDone("start_authentication", Some(resp),
                                  start_authentication_text(r.exc), r.exc, r.fs # fs)
              /\ used' = IF r.exc = "none" THEN used \cup {Issued(call, r.ret[1])} ELSE used
        /\ calls' = calls \ {call}
        /\ UNCHANGED <<now, sent, signed, procs, env, client>>

\* complete_authentication up to the await of exchange_for_access_token, or to
\* its end when there is no flow manager or no request token
CompleteAuthenticationStart ==
    \E verifier \in Verifiers :
        LET loaded == load_request_token(fs)
            exc == IF env.is_cloud THEN "RuntimeError"
                   ELSE IF loaded.exc # "none" THEN loaded.exc
                   ELSE IF no_request_token(loaded.ret) THEN "OAuthFlowError"
                   ELSE "none"
        IN IF exc # "none"
           THEN /\ last' = ToolDone("complete_authentication", None,
                                    complete_authentication_text(exc), exc, FALSE)
                /\ UNCHANGED <<fs, now, calls, sent, signed, procs, env, client, used>>
           ELSE /\ sent < MaxSends
                /\ LET signer == Signer(settings,
                                        Some(chars(loaded.ret[1].oauth_token)),
                                        Some(chars(loaded.ret[1].oauth_token_secret)))
                       signed_params == sign_request(signer, oauth_access_token_url, POST,
                                            k_oauth_verifier :> Str(chars(verifier)),
                                            str(signed + 1), now)
                   IN calls' = calls \cup {[id |-> sent + 1,
                                            op |-> "complete_authentication",
                                            url |-> oauth_access_token_url,
                                            arg |-> "exchange_for_access_token",
                                            data |-> signed_params,
                                            from |-> Latest(used)]}
                /\ signed' = signed + 1
                /\ sent' = sent + 1
                /\ UNCHANGED <<fs, now, last, procs, env, client, used>>

\* complete_authentication from the provider's answer to the await of
\* _reinitialize_client (the close of the old client), or to its end when the
\* exchange raises
CompleteAuthenticationFinish ==
    \E call \in calls, resp \in Responses, ok1 \in BOOLEAN, ok2 \in BOOLEAN :
        /\ call.op = "complete_authentication"
        /\ call.arg = "exchange_for_access_token"
        /\ LET r == exchange_finish(fs, resp, now, ok1, ok2)
           IN /\ fs' = r.fs
              /\ used' = IF r.exc = "none" THEN used \cup {Exchanged(call)} ELSE used
              /\ IF r.exc = "none"
                 THEN /\ calls' = closed_under(calls \ {call}, client[1])
                                      \cup {[call EXCEPT !.arg = "reinitialize_client"]}
                      /\ client' = Some(close(client[1]))
                      /\ UNCHANGED last
                 ELSE /\ calls' = calls \ {call}
                      /\ last' = ToolDone("complete_authentication", Some(resp),
                                          complete_authentication_text(r.exc), r.exc,
                                          r.fs # fs)
                      /\ UNCHANGED client
        /\ UNCHANGED <<now, sent, signed, procs, env>>

\* disconnect_account up to the await of _reinitialize_client, or to its end
\* when the store raises
DisconnectAccountStart ==
    \E ok1 \in BOOLEAN, ok2 \in BOOLEAN :
        LET deleted == store_delete_user_token(fs, env, ok1)
            cleared == IF deleted.exc # "none" THEN deleted
                       ELSE store_clear_request_token(deleted.fs, env, ok2)
        IN /\ fs' = cleared.fs
           /\ IF cleared.exc # "none"
              THEN /\ last' = ToolDone("disconnect_account", None,
                                       disconnect_account_text(cleared.exc), cleared.exc,
                                       cleared.fs # fs)
                   /\ UNCHANGED calls
                   /\ UNCHANGED client
              ELSE /\ calls' = closed_under(calls, client[1])
                                   \cup {[id |-> 0, op |-> "disconnect_account",
                                          url |-> <<>>, arg |-> "reinitialize_client",
                                          data |-> <<>>, from |-> 0]}
                   /\ client' = Some(close(client[1]))
                   /\ UNCHANGED last
           /\ UNCHANGED <<now, sent, signed, procs, env, used>>

\* _reinitialize_client from its await to the end of the tool that called it
ReinitializeClient ==
    \E call \in calls :
        /\ call.arg = "reinitialize_client"
        /\ LET r == reinitialize_client(fs, env, client)
               text == IF call.op = "disconnect_account"
                       THEN disconnect_account_text(r.exc)
                       ELSE complete_authentication_text(r.exc)
           IN /\ client' = r.client
              /\ last' = ToolDone(call.op, None, text, r.exc, FALSE)
        /\ calls' = calls \ {call}
        /\ UNCHANGED <<fs, now, sent, signed, procs, env, used>>

\* the server has started: locally on a store that earlier runs have written,
\* or on a cloud deployment
ServerInit ==
    /\ env \in ServerEnvs
    /\ fs \in {lifespan(F, env).fs : F \in IF env.is_cloud THEN {NoFiles} ELSE StoredFs}
    /\ client = lifespan(fs, env).client
    /\ now = 1
    /\ last = NoCall
    /\ calls = {}
    /\ sent = 0
    /\ signed = 0
    /\ procs = [p \in Procs |-> IdleProc]
    /\ used = {}

\* the API tools call an operation of _client and turn what it returns or
\* raises into text: ApiStart and ApiFinish are that operation
ServerNext ==
    \/ StartAuthenticationStart
    \/ StartAuthenticationFinish
    \/ CompleteAuthenticationStart
    \/ CompleteAuthenticationFinish
    \/ DisconnectAccountStart
    \/ ReinitializeClient
    \/ ApiStart
    \/ ApiFinish

\* the tools of the server called in any order and interleaved at their awaits
ServerSpec == ServerInit /\ [][ServerNext]_vars

(***************************************************************************)
(* What the callers of the store and of the flow manager observe.          *)
(***************************************************************************)
Absent == <<"none", None>>
Holds(token) == <<"none", Some(token)>>

\* the value a form-encoded body gives a key: its first non-blank value
BodyGives(body, key, value) ==
    \E i \in 1..Len(body) :
        /\ body[i].k = key
        /\ body[i].v = value
        /\ value # ""
        /\ \A j \in 1..(i - 1) : body[j].k = key => body[j].v = ""

FlowOps == {"get_request_token", "exchange_for_access_token"}

\* a step in which a call of the TokenStore operation op runs (the clock stands
\* still while it does, and every call leaves its record in last)
Step(op) == now' = now /\ last'.op = op

\* C1: an exchange_for_access_token that succeeds returns a UserToken with the
\* oauth_token and oauth_token_secret of the access-token response and a
\* created_at > 0; load_user_token() then returns that token and
\* load_request_token() is absent.
C1_FullHandshake ==
    (last.op = "exchange_for_access_token" /\ last.exc = "none") =>
        LET user_token == last.ret[1]
            body == last.resp[1].body
        IN /\ BodyGives(body, "oauth_token", user_token.oauth_token)
           /\ BodyGives(body, "oauth_token_secret", user_token.oauth_token_secret)
           /\ user_token.created_at # None
           /\ user_token.created_at[1] > 0
           /\ UserSlot(fs) = Holds(user_token)
           /\ RequestSlot(fs) = Absent

\* a handshake has run to its end: tokens a / b from the access-token endpoint
C1_Witness ==
    /\ last.op = "exchange_for_access_token"
    /\ last.exc = "none"
    /\ last.ret[1].oauth_token = "a"
    /\ last.ret[1].oauth_token_secret = "b"
    /\ UserSlot(fs) = Holds(last.ret[1])

\* C2: exchange_for_access_token called while no request token is stored fails
\* at once with the OAuthFlowError "No request token found": nothing is signed,
\* nothing is sent, no call is left awaiting, the store is unchanged.
C2_NoRequestToken ==
    [][(RequestSlot(fs) = Absent /\ ExchangeStart) =>
          /\ last'.op = "exchange_for_access_token"
          /\ last'.exc = "OAuthFlowError"
          /\ last'.msg.text = "No request token found. "
          /\ signed' = signed
          /\ sent' = sent
          /\ calls' = calls
          /\ fs' = fs]_vars

\* the exchange was refused for want of a request token, a user token being stored
C2_Witness ==
    /\ last.op = "exchange_for_access_token"
    /\ last.exc = "OAuthFlowError"
    /\ last.msg.text = "No request token found. "
    /\ UserSlot(fs) # Absent
    /\ RequestSlot(fs) = Absent

\* the members of the storage file that hold a request token
RequestMembers(F) ==
    IF ~Exists(F, storage_path) THEN {}
    ELSE {i \in 1..Len(Content(F, storage_path)) :
            /\ Content(F, storage_path)[i].c = "member"
            /\ Content(F, storage_path)[i].key = "request_token"}

\* C3: a get_request_token that succeeds returns a RequestToken with the
\* oauth_token and oauth_token_secret of the response, and load_request_token()
\* then returns that token; the storage file never holds more than one request
\* token, so a later success replaces the earlier token.
C3_RequestTokenPersisted ==
    /\ Cardinality(RequestMembers(fs)) <= 1
    /\ (last.op = "get_request_token" /\ last.exc = "none") =>
            LET token == last.ret[1]
                body == last.resp[1].body
            IN /\ BodyGives(body, "oauth_token", token.oauth_token)
               /\ BodyGives(body, "oauth_token_secret", token.oauth_token_secret)
               /\ RequestSlot(fs) = Holds(token)

\* the second of two get_request_token calls has succeeded and its token (b, a)
\* is the one stored
C3_Witness ==
    /\ last.op = "get_request_token"
    /\ last.exc = "none"
    /\ sent = 2
    /\ calls = {}
    /\ last.ret[1] = RequestToken("b", "a")
    /\ RequestSlot(fs) = Holds(RequestToken("b", "a"))
    /\ Cardinality(RequestMembers(fs)) = 1

\* C4: every failed call of get_request_token or exchange_for_access_token ends
\* in an OAuthFlowError, whose message carries the HTTP status when the status
\* was not 2xx.
C4_OnlyOAuthFlowError ==
    (last.op \in FlowOps /\ last.exc # "none") =>
        /\ last.exc = "OAuthFlowError"
        /\ (last.resp # None /\ last.resp[1].kind = "response"
                /\ ~is_success(last.resp[1].status))
             => last.msg.detail = Some(last.resp[1].status)

\* C5: save_user_token(T) followed by load_user_token() returns a token equal to
\* T in all three fields, for every T.
C5_RoundTripAnyToken ==
    (last.op = "save_user_token" /\ last.exc = "none") =>
        UserSlot(fs) = Holds(last.arg[1])

\* C5 (amended): save_user_token(T) followed by load_user_token() returns T's
\* oauth_token and oauth_token_secret whatever was stored before; created_at is
\* T's when T has a non-zero created_at, and the time of the save otherwise.
C5_RoundTrip ==
    (last.op = "save_user_token" /\ last.exc = "none") =>
        LET T == last.arg[1]
            created == IF T.created_at \in {None, Some(0)}
                       THEN Some(last.at) ELSE T.created_at
        IN UserSlot(fs) = Holds(UserToken(T.oauth_token, T.oauth_token_secret, created))

\* a token without created_at was saved over a stored one and loads back with
\* the time of the save
C5_Witness ==
    /\ last.op = "save_user_token"
    /\ last.exc = "none"
    /\ last.arg[1] = UserToken("b", "a", None)
    /\ last.at = 2
    /\ UserSlot(fs) = Holds(UserToken("b", "a", Some(2)))

\* C6: load_user_token and load_request_token raise nothing, whatever the
\* storage file holds.
C6_LoadsNeverRaise ==
    last.op \in {"load_user_token", "load_request_token"} => last.exc = "none"

\* the processes that are in a write or have stopped in one
Writing(p) == procs[p].pc \in InWrite \cup {"crashed"}

\* C7: while a write runs, and after it has stopped at any step, the storage
\* file holds the complete content it held before the write or the complete
\* new content; a load that has opened the file reads the complete content the
\* file held when it was opened.
C7_AtomicWrite ==
    /\ \A p \in Writers :
          /\ Writing(p) =>
                StorageContent(fs) \in {procs[p].prev, Some(json_dump(procs[p].data))}
          /\ procs[p].pc = "done" /\ procs[p].latest =>
                StorageContent(fs) = Some(json_dump(procs[p].data))
    /\ procs[Reader].pc = "done" =>
          /\ procs[Reader].exc = "none"
          /\ procs[Reader].prev # None =>
                json_load(procs[Reader].prev[1]) = [ok |-> TRUE, val |-> procs[Reader].data]

\* the writer has stopped with the temporary file half written, the storage
\* file holding the earlier content, which a load has read
C7_Witness ==
    /\ procs["w1"].pc = "crashed"
    /\ Exists(fs, temp_path)
    /\ Len(Content(fs, temp_path)) = 1
    /\ StorageContent(fs) = procs["w1"].prev
    /\ procs["w1"].prev # None
    /\ procs[Reader].pc = "done"
    /\ procs[Reader].data = json_load(procs["w1"].prev[1]).val
    /\ DOMAIN procs[Reader].data.m # {}

\* C8: two writers of one storage path both complete without error, and the
\* file holds the complete content of the writer that renamed last.
C8_LastWriterWins ==
    /\ \A p \in Writers : procs[p].pc # "failed"
    /\ \A p \in Writers :
          procs[p].pc = "done" /\ procs[p].latest =>
              StorageContent(fs) = Some(json_dump(procs[p].data))

\* C9: save_user_token and delete_user_token leave what load_request_token()
\* returns unchanged, save_request_token and clear_request_token leave what
\* load_user_token() returns unchanged.
C9_SlotsIndependent ==
    /\ last.op \in {"save_user_token", "delete_user_token"}
            => RequestSlot(fs) = last.other
    /\ last.op \in {"save_request_token", "clear_request_token"}
            => UserSlot(fs) = last.other

\* both tokens are stored at once, each with its own values, the user token
\* written last
C9_Witness ==
    /\ last.op = "save_user_token"
    /\ last.exc = "none"
    /\ last.wrote
    /\ UserSlot(fs) = Holds(UserToken("a", "b", Some(1)))
    /\ RequestSlot(fs) = Holds(RequestToken("b", "a"))

\* C10: a delete_user_token that returns leaves load_user_token() absent, a
\* clear_request_token that returns leaves load_request_token() absent; on an
\* empty slot each returns without an exception and without touching the
\* storage directory.
C10_DeleteClear ==
    [][/\ Step("delete_user_token") =>
            /\ last'.exc = "none" => UserSlot(fs)' = Absent
            /\ UserSlot(fs) = Absent => (last'.exc = "none" /\ fs' = fs)
       /\ Step("clear_request_token") =>
            /\ last'.exc = "none" => RequestSlot(fs)' = Absent
            /\ RequestSlot(fs) = Absent => (last'.exc = "none" /\ fs' = fs)]_vars

\* a stored user token was deleted while a request token stayed stored
C10_Witness ==
    /\ last.op = "delete_user_token"
    /\ last.exc = "none"
    /\ last.wrote
    /\ UserSlot(fs) = Absent
    /\ RequestSlot(fs) # Absent

\* a write of the store that has completed
WriteDone ==
    /\ last.exc = "none"
    /\ \/ last.op \in {"save_user_token", "save_request_token"}
       \/ last.op \in {"delete_user_token", "clear_request_token"} /\ last.wrote

\* C11: after a write of the store that completed the storage file has the
\* permission bits 0600 exactly, and the directory of the storage file, when
\* the store made it, has the permission bits 0700 exactly.
C11_OwnerOnlyModes ==
    /\ WriteDone =>
          /\ Exists(fs, storage_path)
          /\ fs.inodes[fs.dir[storage_path]].mode = 384
    /\ fs.tree[directory].made =>
          /\ fs.tree[directory].exists
          /\ fs.tree[directory].mode = 448

\* the store has made the directory of the storage file with 0700 under a
\* ~/.config somebody else made, and a write has left the storage file 0600
C11_Witness ==
    /\ WriteDone
    /\ last.op = "save_request_token"
    /\ last.at = 2
    /\ ~fs.tree[1].made
    /\ fs.tree[directory].made
    /\ fs.tree[directory].mode = 448
    /\ fs.inodes[fs.dir[storage_path]].mode = 384
    /\ UserSlot(fs) = Absent

EnvOps == {"EnvTokenStore.load_user_token", "EnvTokenStore.save_user_token",
           "EnvTokenStore.delete_user_token", "EnvTokenStore.save_request_token",
           "EnvTokenStore.load_request_token", "EnvTokenStore.clear_request_token",
           "EnvTokenStore.has_user_token"}

\* the variable is set to a string that is not empty
EnvSet(v) == v # None /\ v[1] # ""

\* C12: the two saves of EnvTokenStore raise NotImplementedError, its
\* load_request_token returns None, its delete_user_token and
\* clear_request_token return; its load_user_token returns a token, made of
\* the two variables, exactly when both are set and not empty; no operation
\* touches the storage directory or changes what load_user_token returns.
C12_EnvReadOnly ==
    last.op \in EnvOps =>
        /\ ~last.wrote
        /\ EnvSlot(env) = last.other
        /\ last.op \in {"EnvTokenStore.save_user_token", "EnvTokenStore.save_request_token"}
              => last.exc = "NotImplementedError"
        /\ last.op \in {"EnvTokenStore.load_request_token", "EnvTokenStore.delete_user_token",
                        "EnvTokenStore.clear_request_token"}
              => (last.exc = "none" /\ last.ret = None)
        /\ last.op = "EnvTokenStore.load_user_token" =>
              /\ last.exc = "none"
              /\ last.ret # None <=>
                    (EnvSet(env.FATSECRET_USER_TOKEN) /\ EnvSet(env.FATSECRET_USER_TOKEN_SECRET))
              /\ last.ret # None =>
                    last.ret[1] = UserToken(env.FATSECRET_USER_TOKEN[1],
                                            env.FATSECRET_USER_TOKEN_SECRET[1], None)

\* with both variables set, a save was refused and the token still loads
C12_Witness ==
    /\ last.op = "EnvTokenStore.save_user_token"
    /\ last.exc = "NotImplementedError"
    /\ last.arg = Some(UserToken("b", "a", Some(1)))
    /\ EnvSlot(env) = Holds(UserToken("a", "b", None))

\* the OAuth parameters every signed request carries
OAuthKeys == {k_oauth_consumer_key, k_oauth_signature_method, k_oauth_timestamp,
              k_oauth_nonce, k_oauth_version, k_oauth_signature}

\* the OAuth parameters of a sign_request call with their values
OAuthValues(signer, nonce, t, R) ==
    /\ R[k_oauth_consumer_key] = Str(signer.consumer_key)
    /\ R[k_oauth_signature_method] = Str(HMAC_SHA1)
    /\ R[k_oauth_timestamp] = Str(str(t))
    /\ R[k_oauth_nonce] = Str(nonce)
    /\ R[k_oauth_version] = Str(Version)
    /\ R[k_oauth_signature].t = "base64"

\* the signer was given a user token (one that is not the empty string)
Configured(signer) == signer.user_token # None /\ signer.user_token[1] # <<>>

\* C13: sign_request returns every application parameter with its original
\* value, the OAuth parameters and one oauth_signature, and oauth_token exactly
\* when the signer has a user token.
C13_SignedParamsKeepAll ==
    last.op = "sign_request" =>
        LET a == last.arg[1]
            R == last.ret[1]
        IN /\ \A k \in DOMAIN a.params : k \in DOMAIN R /\ R[k] = a.params[k]
           /\ OAuthKeys \subseteq DOMAIN R
           /\ OAuthValues(a.signer, a.nonce, last.at, R)
           /\ k_oauth_token \in DOMAIN R <=> Configured(a.signer)
           /\ Configured(a.signer) => R[k_oauth_token] = Str(a.signer.user_token[1])

\* C13 (amended): sign_request returns the OAuth parameters with the signer's
\* values and one oauth_signature, oauth_token with the signer's token when it
\* has one, and every application parameter whose name is not one of these
\* with its original value; no other key.  An application parameter named like
\* an OAuth parameter of the call is replaced by the OAuth value, and an
\* application parameter oauth_token is returned as it is when the signer has
\* no user token.
C13_SignedParams ==
    last.op = "sign_request" =>
        LET a == last.arg[1]
            R == last.ret[1]
            own == OAuthKeys \cup (IF Configured(a.signer) THEN {k_oauth_token} ELSE {})
        IN /\ DOMAIN R = DOMAIN a.params \cup own
           /\ \A k \in DOMAIN a.params \ own : R[k] = a.params[k]
           /\ OAuthValues(a.signer, a.nonce, last.at, R)
           /\ Configured(a.signer) => R[k_oauth_token] = Str(a.signer.user_token[1])

\* a signer with a user token has signed a mapping that has a parameter of its
\* own and one named oauth_nonce: the first is kept, the second replaced
C13_Witness ==
    /\ last.op = "sign_request"
    /\ Configured(last.arg[1].signer)
    /\ last.arg[1].params = NonceParam
    /\ last.arg[1].params[<<"m">>] = Str(<<"f">>)
    /\ last.arg[1].params[k_oauth_nonce] = Str(<<"9">>)
    /\ last.ret[1][<<"m">>] = Str(<<"f">>)
    /\ last.ret[1][k_oauth_nonce] = Str(<<"f">>)
    /\ last.ret[1][k_oauth_token] = Str(<<"a">>)

\* the mapping a sign_request call computed its signature over: the application
\* parameters merged with the OAuth parameters of the call
AllParams(a, R) ==
    LET own == (OAuthKeys \ {k_oauth_signature})
                    \cup (IF Configured(a.signer) THEN {k_oauth_token} ELSE {})
    IN Merge(a.params, [k \in own |-> R[k]])

\* the inputs of a signature: the secrets, the method, the URL, the parameter
\* mapping with nonce and timestamp in it
SignatureInputs(a, R) ==
    <<a.signer.consumer_secret, a.signer.user_token_secret, a.method, a.url,
      AllParams(a, R)>>

\* C14: the signature a sign_request call returns is
\* base64(HMAC-SHA1(key, base string)) with key = percent_encode(consumer
\* secret) & percent_encode(token secret, empty when there is none) and the
\* base string of method, URL and parameter mapping; two calls with the same
\* secrets, method, URL and parameter mapping (nonce and timestamp included)
\* return the same signature.
C14_DeterministicSignature ==
    last.op = "sign_request" =>
        LET a == last.arg[1]
            R == last.ret[1]
            key == percent_encode(a.signer.consumer_secret) \o <<"&">>
                        \o percent_encode(a.signer.user_token_secret)
            base_string == create_signature_base_string(a.url, a.method, AllParams(a, R))
        IN /\ R[k_oauth_signature] = b64encode(hmac_sha1(key, base_string))
           /\ (last.other # None
                 /\ SignatureInputs(last.other[1].arg, last.other[1].ret)
                        = SignatureInputs(a, R))
                => last.other[1].ret[k_oauth_signature] = R[k_oauth_signature]

\* the same call was made twice at the same time and the same nonce was drawn:
\* the signatures are equal, under a key in which & and / are escaped
C14_Witness ==
    /\ last.op = "sign_request"
    /\ last.other # None
    /\ last.arg[1].signer = ReservedSecrets
    /\ last.other[1].arg = last.arg[1]
    /\ last.other[1].at = last.at
    /\ last.other[1].ret[k_oauth_signature] = last.ret[1][k_oauth_signature]
    /\ last.ret[1][k_oauth_signature].digest.key
            = <<"c", "%", "2", "6", "&", "%", "2", "F">>

C16_RequiresUserToken ==
    /\ [](~is_user_authenticated(client[1])
            => \A call \in calls : call.op \notin UserOps)
    /\ [][(/\ ~is_user_authenticated(client[1])
            /\ last' # last
            /\ last'.op \in UserOps)
           => (/\ last'.exc = "UserNotAuthenticatedError"
               /\ signed' = signed
               /\ sent' = sent
               /\ calls' = calls)]_vars
    /\ [][is_user_authenticated(client'[1]) = is_user_authenticated(client[1])]_vars
    /\ [](\E u \in Supplied :
            /\ client = Some(FatSecretClient(settings, u))
            /\ (is_user_authenticated(client[1]) <=> u # None))

\* C16 witness: update_weight has raised UserNotAuthenticatedError on a client
\* without a user token that signed and sent a request of another operation.
C16_Witness ==
    /\ ~is_user_authenticated(client[1])
    /\ last.op = "update_weight"
    /\ last.exc = "UserNotAuthenticatedError"
    /\ signed = 1
    /\ sent = 1
    /\ \E call \in calls : call.op = "search_foods"

\* the answer resp carries an error object: a 2xx status and a JSON body with
\* an "error" member
ErrorObject(resp) ==
    resp.kind = "response" /\ is_success(resp.status) /\ resp.body.kind = "error"

\* the answer resp has a status that is not 2xx
ErrorStatus(resp) == resp.kind = "response" /\ ~is_success(resp.status)

LastUsed(U) == CHOOSE u \in U : \A v \in U : v.seq <= u.seq

\* C20: a request token is single-use: no two exchange_for_access_token calls
\* that returned a user token exchanged the request token of the same
\* get_request_token call, and while the latest of the successful
\* get_request_token and exchange_for_access_token calls is an exchange the
\* store holds no request token, so that a further exchange ends with the "No
\* request token found" error.
C20_SingleUse ==
    /\ \A u, v \in used :
            (u.kind = "exchanged" /\ v.kind = "exchanged" /\ u.from = v.from)
                => u.id = v.id
    /\ (used # {} /\ LastUsed(used).kind = "exchanged") =>
            /\ RequestSlot(fs) = Absent
            /\ (last.op = "exchange_for_access_token" /\ last.exc # "none"
                    /\ last.resp = None)
                    => last.msg.text = "No request token found. "

\* no tool call is under way
Quiescent == calls = {}

\* C18: whenever no tool call is under way and the token store holds a user
\* token, the server's client is user-authenticated with exactly that token.
C18_StoredTokenAuthenticates ==
    Quiescent =>
        LET stored == store_load_user_token(fs, env)
        IN stored.ret # None =>
            /\ is_user_authenticated(client[1])
            /\ client[1].user_token = stored.ret

\* a step in which disconnect_account returns its confirmation
DisconnectReturns ==
    \E call \in calls :
        /\ call.op = "disconnect_account"
        /\ call.arg = "reinitialize_client"
        /\ calls' = calls \ {call}
        /\ last'.op = "disconnect_account"
        /\ last'.ret = Some(Disconnected)

\* C19: when disconnect_account returns its "Disconnected" confirmation the
\* token store, file-based or environment-variable, holds neither a user token
\* nor a request token and the server's client is not user-authenticated.
C19_DisconnectedIsGone ==
    [][DisconnectReturns =>
        /\ store_load_user_token(fs', env').ret = None
        /\ store_load_request_token(fs', env').ret = None
        /\ ~is_user_authenticated(client'[1])]_vars

\* the entry of the get_request_token call that saved a request token last
LastIssued(U) ==
    LET issued == {u \in U : u.kind = "issued"}
    IN CHOOSE u \in issued : \A v \in issued : v.seq <= u.seq

\* the key of the HMAC of a signed request
SignedWith(data) == data[k_oauth_signature].digest.key

C22_TemporaryTokenGone ==
    (last.op = "exchange_for_access_token" /\ last.wrote /\ last.other # None) =>
        LET stored == RequestSlot(fs)
        IN \/ UserSlot(fs)[2] = None
           \/ stored[2] = None
           \/ chars(stored[2][1].oauth_token) # last.other[1]

\* the mapping m without the key k
Without(m, k) == [j \in DOMAIN m \ {k} |-> m[j]]

\* C23: what is signed is what is sent: the base string of every sign_request
\* call is that of the returned mapping without oauth_signature, which carries
\* the nonce and the timestamp of the call, so that oauth_signature is never
\* part of the base string and the OAuth value of a key that the application
\* parameters have as well is used in both.
C23_SignedIsSent ==
    last.op = "sign_request" =>
        LET a == last.arg[1]
            R == last.ret[1]
            sent_params == Without(R, k_oauth_signature)
        IN /\ R[k_oauth_signature].digest.msg =
                create_signature_base_string(a.url, a.method, sent_params)
           /\ sent_params[k_oauth_nonce] = Str(a.nonce)
           /\ sent_params[k_oauth_timestamp] = Str(str(last.at))

\* the encoded pairs of a mapping
encoded_pairs(params) ==
    {<<percent_encode(k), percent_encode(params[k].s)>> : k \in DOMAIN params}

\* by encoded key, then by encoded value
pair_less(p, q) == less(p[1], q[1]) \/ (p[1] = q[1] /\ less(p[2], q[2]))

RECURSIVE by_encoded(_)
by_encoded(pairs) ==
    IF pairs = {} THEN <<>>
    ELSE LET first == CHOOSE p \in pairs : \A q \in pairs \ {p} : pair_less(p, q)
         IN <<first>> \o by_encoded(pairs \ {first})

\* key=value of the encoded pairs in that order, joined by "&"
normalized(params) ==
    LET ordered == by_encoded(encoded_pairs(params))
    IN join(<<"&">>, [i \in DOMAIN ordered |-> ordered[i][1] \o <<"=">> \o ordered[i][2]])

\* the mapping a sign_request call signed: the returned one, with the
\* application's value where the computed signature has taken its place
SignedParams(a, R) ==
    Merge(Without(R, k_oauth_signature),
          [k \in DOMAIN a.params \cap {k_oauth_signature} |-> a.params[k]])

\* C24: the base string of every sign_request call is the method in upper
\* case, the encoded URL and the encoded parameter string joined by "&", the
\* parameter string listing the percent-encoded key=value pairs of the signed
\* mapping sorted by encoded key, then by encoded value.
C24_SortedByEncodedKey ==
    last.op = "sign_request" =>
        LET a == last.arg[1]
            R == last.ret[1]
        IN R[k_oauth_signature].digest.msg =
               join(<<"&">>, <<upper(a.method), percent_encode(a.url),
                               percent_encode(normalized(SignedParams(a, R)))>>)

\* RFC 3986, 2.3: ALPHA / DIGIT / "-" / "." / "_" / "~"
Unreserved ==
    {Lower[i] : i \in DOMAIN Lower} \cup {Upper[i] : i \in DOMAIN Upper}
        \cup {Digits[i] : i \in DOMAIN Digits} \cup {"-", ".", "_", "~"}

HexDigits == {Digits[i] : i \in DOMAIN Digits} \cup {"A", "B", "C", "D", "E", "F"}

\* only unreserved characters and "%" followed by two hexadecimal digits
OnlyUnreservedAndEscapes(out) ==
    \A i \in DOMAIN out :
        \/ out[i] \in Unreserved
        \/ /\ out[i] = "%"
           /\ i + 2 <= Len(out)
           /\ out[i + 1] \in HexDigits
           /\ out[i + 2] \in HexDigits

\* the "%XX" escapes of the UTF-8 bytes of a character
RECURSIVE EscapedBytes(_)
EscapedBytes(hex) ==
    IF hex = <<>> THEN <<>> ELSE <<"%", hex[1], hex[2]>> \o EscapedBytes(Tail(Tail(hex)))

\* character by character: unreserved ones as they are, the others escaped
RECURSIVE Rfc3986(_)
Rfc3986(value) ==
    IF value = <<>> THEN <<>>
    ELSE (IF Head(value) \in Unreserved THEN <<Head(value)>>
          ELSE EscapedBytes(Utf8Hex[Head(value)])) \o Rfc3986(Tail(value))

\* C25: percent-encoding follows RFC 3986 for every input string: unreserved
\* characters are left unchanged, every other character is replaced by the
\* %XX escapes of its bytes, a space is %20 and never "+", and the output
\* holds only unreserved characters and "%" escapes.
C25_PercentEncoding ==
    last.op = "percent_encode" =>
        LET value == last.arg[1]
            out == last.ret[1]
        IN /\ out = Rfc3986(value)
           /\ (\A i \in DOMAIN value : value[i] \in Unreserved) => out = value
           /\ value = <<" ">> => out = <<"%", "2", "0">>
           /\ \A i \in DOMAIN out : out[i] # "+"
           /\ OnlyUnreservedAndEscapes(out)

\* C25 witness: a space and a character of two bytes were encoded
C25_Witness ==
    /\ last.op = "percent_encode"
    /\ last.arg[1] = <<" ", "é">>
    /\ last.ret[1] = <<"%", "2", "0", "%", "C", "3", "%", "A", "9">>

\* the request with this number is at its await
InFlight(n) == \E call \in calls : call.id = n

\* every request that is at its await ends
EveryRequestEnds == \A n \in 1..MaxSends : InFlight(n) ~> ~InFlight(n)

\* C26: every get_request_token, exchange_for_access_token and request of the
\* API client that is at its await eventually ends, whatever the remote side
\* does, and it ends with its result or with an OAuthFlowError (handshake) or
\* an APIError (API client).
C26_NoSilentHang ==
    /\ EveryRequestEnds
    /\ [][\A call \in calls \ calls' :
            IF call.op \in ApiOps
            THEN \/ last' = last
                 \/ last'.raised[1].exc \in {"none"} \cup APIErrors
            ELSE last'.exc \in {"none", "OAuthFlowError"}]_vars

\* C27: a get_request_token or exchange_for_access_token that fails, for any
\* reason, leaves both slots of the store as they were: the stored request
\* token is kept and an existing user token is neither altered nor removed.
C27_FailedStepChangesNothing ==
    [][\A call \in calls \ calls' :
            (call.op \in {"get_request_token", "exchange_for_access_token"}
                /\ last'.exc # "none")
                => /\ UserSlot(fs') = UserSlot(fs)
                   /\ RequestSlot(fs') = RequestSlot(fs)]_vars

\* C28: while the client is re-initialised no tool call gets a closed client
\* from _get_client and no request is in flight on a client whose transport
\* has been closed.
C28_NoClosedClient ==
    /\ \A call \in calls : "client" \in DOMAIN call => ~call.client.closed
    /\ ~(last.op \in ApiOps /\ last.exc = "RuntimeError")

\* the text holds a token: a member of the stored object has been written
HoldsTokenData(text) == \E i \in DOMAIN text : text[i].c = "member"

\* C29: in every state, the steps of a write included, every file of the
\* storage directory that holds token data (the storage file, the temporary
\* file) has the mode 0600.
C29_AlwaysOwnerOnly ==
    \A p \in Paths :
        (Exists(fs, p) /\ HoldsTokenData(Content(fs, p)))
            => fs.inodes[fs.dir[p]].mode = ModeOwnerRW

\* C30: when a save_user_token and a save_request_token or clear_request_token
\* of two writers on one storage file have both completed, the file holds the
\* user token of the one and the request token (or none) of the other.
C30_BothWritesKept ==
    \A p \in Writers, q \in Writers :
        (/\ p # q
         /\ procs[p].pc = "done" /\ procs[p].op = "save_user_token"
         /\ procs[q].pc = "done"
         /\ procs[q].op \in {"save_request_token", "clear_request_token"})
            => LET stored == read_storage(fs)
               IN /\ dict_get(stored, "user_token")
                        = dict_get(procs[p].data, "user_token")
                  /\ dict_get(stored, "request_token")
                        = dict_get(procs[q].data, "request_token")
====
